---- MODULE Spec2Model ----
(***************************************************************************)
(* Verification model of the Garmin tracker web application                *)
(* (src/garmin_tracker).  The module holds several specifications over one *)
(* set of variables:                                                       *)
(*   SpecZone     the heart-rate zone classifier (_zone_for_hr)            *)
(*   SpecLoad     per-sample zone attribution                              *)
(*                (_compute_zone_load_from_metrics)                        *)
(*   SpecResolve  metric index resolution and series extraction            *)
(*   SpecDash     the dashboard handler (window, buckets, zone totals)     *)
(*   SpecTask     the background TaskManager                               *)
(*   SpecPlan     planned trainings / competitions CRUD handlers           *)
(*   SpecPages    the pages that show planned entries                      *)
(*   SpecWriters  concurrent requests rewriting data/trainings.json        *)
(*   SpecStorage  storage.py read_json / write_json                        *)
(*   SpecSync     garmin_sync.py sync_activities                           *)
(*   SpecProfile  the profile form and the heart-rate zone tables          *)
(*   SpecCreds    login, logout, the credentials store and the sync tasks  *)
(*   SpecSeries   rolling mean and confidence interval of the series       *)
(*   SpecPoll     task_status polling a task while its runner ends it      *)
(*   SpecTaskFair SpecTask with a fair scheduler for the runner threads    *)
(*   SpecDetails  sync_activities through the activities and details files *)
(*   SpecStore    the credentials store with its clock                     *)
(* A specification leaves the variables of the other parts at their idle   *)
(* values.                                                                 *)
(*                                                                         *)
(* Python values are modelled as tagged records: None is [k |-> "none"],   *)
(* a number v is [k |-> "num", v |-> v], a non-numeric cell is             *)
(* [k |-> "str"].  Durations are kept in milliseconds so that the          *)
(* division of directTimestamp differences by 1000.0 stays exact.          *)
(***************************************************************************)
EXTENDS Integers, Sequences, FiniteSets, TLC

VARIABLES
    args,               \* arguments of the pure function / handler under call
    ret,                \* its returned value
    pc,                 \* "call" before the call, "done" after it
    tasks,              \* TaskManager._tasks: the set of registered task ids
    status,             \* the TaskStatus objects, by task id
    thread,             \* position of each task's runner thread
    now,                \* time.time()
    trainings_file,     \* data/trainings.json
    competitions_file,  \* data/competitions.json
    last_request,       \* the CRUD request served last
    uuid_next,          \* number of uuid4 ids handed out so far
    served,             \* number of CRUD requests served so far
    inflight,           \* the request threads in flight, each with its locals
    activities_file,    \* data/<user>_activities.json
    details_file,       \* data/<user>_activity_details.json: "activities", by id
    sync,               \* the last sync_activities run: what it was given
    creds_items,        \* InMemoryCredentialsStore._items, by token number
    session,            \* the client's session cookie: the value under _SESSION_KEY
    garmin_cache,       \* _garmin_cache: the cached Garmin handlers
    db_users            \* the users table

pureVars == <<args, ret, pc>>
taskVars == <<tasks, status, thread, now>>
credVars == <<creds_items, session, garmin_cache, db_users>>
otherVars == <<activities_file, details_file, sync, credVars>>
planVars == <<trainings_file, competitions_file, last_request, uuid_next, served,
             inflight, otherVars>>
vars == <<args, ret, pc, tasks, status, thread, now,
          trainings_file, competitions_file, last_request, uuid_next, served,
          inflight, activities_file, details_file, sync, creds_items, session,
          garmin_cache,
          db_users>>

----------------------------------------------------------------------------
(* Python values *)

None == [k |-> "none"]
Num(v) == [k |-> "num", v |-> v]
Junk == [k |-> "str"]
IsNone(x) == x.k = "none"
IsNum(x) == x.k = "num"

\* float(v) if v is not None else None, inside try/except
safe_float(x) == IF IsNum(x) THEN x ELSE None

Min2(a, b) == IF a <= b THEN a ELSE b
Max2(a, b) == IF a >= b THEN a ELSE b

RECURSIVE SumSeq(_)
SumSeq(s) == IF s = <<>> THEN 0 ELSE Head(s) + SumSeq(Tail(s))

\* A local variable assignment: F applied to the value of v, computed once
Once(F(_), v) == CHOOSE r \in { F(x) : x \in {v} } : TRUE

----------------------------------------------------------------------------
(* Idle values of the parts a specification does not use *)

NoCall == [fn |-> "none"]
PureIdle == args = NoCall /\ ret = None /\ pc = "idle"
TaskIdle == /\ tasks = {}
            /\ status = <<>>
            /\ thread = <<>>
            /\ now = 0
CredIdle == /\ creds_items = <<>>
            /\ session = None
            /\ garmin_cache = {}
            /\ db_users = {}
OtherIdle == /\ activities_file = <<>>
             /\ details_file = <<>>
             /\ sync = None
             /\ CredIdle
PlanIdle == /\ OtherIdle
            /\ trainings_file = <<>>
            /\ competitions_file = <<>>
            /\ last_request = None
            /\ uuid_next = 0
            /\ served = 0
            /\ inflight = <<>>

----------------------------------------------------------------------------
(* Zone classifier: webapp.py _zone_for_hr *)

MaxBpm == 6

\* The zone table of the specification's concrete scenarios.
ScenarioZones ==
    [z1_max |-> 120, z2_max |-> 140, z3_max |-> 160, z4_max |-> 180, z5_max |-> 200]

\* HRZoneTable: 0 < z1 < z2 < z3 < z4 < z5
ZoneTables ==
    { [z1_max |-> a, z2_max |-> b, z3_max |-> c, z4_max |-> d, z5_max |-> e] :
        <<a, b, c, d, e>> \in
            { q \in (1..MaxBpm) \X (1..MaxBpm) \X (1..MaxBpm) \X (1..MaxBpm) \X (1..MaxBpm) :
                q[1] < q[2] /\ q[2] < q[3] /\ q[3] < q[4] /\ q[4] < q[5] } }
    \cup {ScenarioZones}

ZoneBound(zones, i) ==
    CASE i = 1 -> zones.z1_max
      [] i = 2 -> zones.z2_max
      [] i = 3 -> zones.z3_max
      [] i = 4 -> zones.z4_max
      [] i = 5 -> zones.z5_max

\* Heart rates around every bound of the table, plus the scenario's samples.
HeartRates(zones) ==
    UNION { {ZoneBound(zones, i) - 1, ZoneBound(zones, i), ZoneBound(zones, i) + 1} : i \in 1..5 }
    \cup {0, 110, 135, 190}

zone_for_hr_strict(hr, zones) ==
    IF IsNone(hr) THEN None
    ELSE IF hr.v < zones.z1_max THEN Num(1)
    ELSE IF hr.v < zones.z2_max THEN Num(2)
    ELSE IF hr.v < zones.z3_max THEN Num(3)
    ELSE IF hr.v < zones.z4_max THEN Num(4)
    ELSE Num(5)

zone_for_hr(hr, zones) ==
    IF IsNone(hr) THEN None
    ELSE IF hr.v <= zones.z1_max THEN Num(1)
    ELSE IF hr.v <= zones.z2_max THEN Num(2)
    ELSE IF hr.v <= zones.z3_max THEN Num(3)
    ELSE IF hr.v <= zones.z4_max THEN Num(4)
    ELSE Num(5)

InitZone ==
    /\ \E zones \in ZoneTables :
         \E hr \in {None} \cup {Num(h) : h \in HeartRates(zones)} :
            args = [fn |-> "zone_for_hr", hr |-> hr, zones |-> zones]
    /\ ret = None
    /\ pc = "call"
    /\ TaskIdle
    /\ PlanIdle

CallZoneForHr ==
    /\ pc = "call"
    /\ args.fn = "zone_for_hr"
    /\ ret' = zone_for_hr(args.hr, args.zones)
    /\ pc' = "done"
    /\ UNCHANGED <<args, taskVars, planVars>>

NextZone == CallZoneForHr

SpecZone == InitZone /\ [][NextZone]_vars

\* The band the claim describes: the first band whose upper limit hr is <= to.
FirstBand(h, zones) ==
    IF \E i \in 1..4 : h <= ZoneBound(zones, i)
    THEN CHOOSE i \in 1..4 :
            /\ h <= ZoneBound(zones, i)
            /\ \A j \in 1..4 : h <= ZoneBound(zones, j) => i <= j
    ELSE 5

\* C1: zone(hr, table) is null for a null hr and otherwise the index of the
\* first band whose upper limit hr is <= to (5 above z4); it is monotonic
\* non-decreasing in hr, zone(z4) = 4, zone(z4+1) = 5, and the scenario table
\* classifies 110, 135, 190 as 1, 2, 5.
C1_ZoneForHr ==
    args.fn = "zone_for_hr" =>
        LET zones == args.zones IN
        /\ pc = "done" =>
             ret = IF IsNone(args.hr) THEN None ELSE Num(FirstBand(args.hr.v, zones))
        /\ zone_for_hr(None, zones) = None
        /\ \A h1, h2 \in HeartRates(zones) :
             h1 <= h2 => zone_for_hr(Num(h1), zones).v <= zone_for_hr(Num(h2), zones).v
        /\ zone_for_hr(Num(zones.z4_max), zones) = Num(4)
        /\ zone_for_hr(Num(zones.z4_max + 1), zones) = Num(5)
        /\ zones = ScenarioZones =>
             /\ zone_for_hr(Num(110), zones) = Num(1)
             /\ zone_for_hr(Num(135), zones) = Num(2)
             /\ zone_for_hr(Num(190), zones) = Num(5)

C1_Witness ==
    /\ pc = "done"
    /\ args.fn = "zone_for_hr"
    /\ args.zones = ScenarioZones
    /\ args.hr = Num(181)
    /\ ret = Num(5)

----------------------------------------------------------------------------
(* Metric index resolution: webapp.py idx_map / "a or b", and               *)
(* ActivityPageManager._index_of                                            *)

MaxIndex == 2
MaxSeriesRows == 2

\* dict.get(key): the stored value, or None
dict_get(d, key) == IF key \in DOMAIN d THEN Num(d[key]) ELSE None

\* Python truthiness of an optional integer: None and 0 are falsy
Truthy(x) == IsNum(x) /\ x.v # 0

\* Python "a or b"
py_or(a, b) == IF Truthy(a) THEN a ELSE b

\* idx_map: later descriptors of a key overwrite earlier ones
RECURSIVE build_index_map(_)
build_index_map(md) ==
    IF md = <<>> THEN <<>>
    ELSE LET n == Len(md)
             rest == build_index_map(SubSeq(md, 1, n - 1))
             d == md[n]
         IN IF d.key # "" /\ IsNum(d.metricsIndex)
            THEN [k \in DOMAIN rest \cup {d.key} |->
                     IF k = d.key THEN d.metricsIndex.v ELSE rest[k]]
            ELSE rest

\* idx_map.get(k1) or idx_map.get(k2) or ... : the first truthy value, else the last
RECURSIVE resolve_or(_, _)
resolve_or(idx_map, keys) ==
    IF Len(keys) = 1 THEN dict_get(idx_map, keys[1])
    ELSE py_or(dict_get(idx_map, keys[1]), resolve_or(idx_map, Tail(keys)))

\* ActivityPageManager._index_of: for k in keys: for d in descriptors
RECURSIVE index_of(_, _)
index_of(descriptors, keys) ==
    IF keys = <<>> THEN None
    ELSE LET hits == {i \in 1..Len(descriptors) : descriptors[i].key = keys[1]}
         IN IF hits # {}
            THEN descriptors[CHOOSE i \in hits : \A j \in hits : i <= j].metricsIndex
            ELSE index_of(descriptors, Tail(keys))

\* Candidate key lists used by the zone computation and by activity_detail
HrKeys == <<"directHeartRate", "heartRate">>
DistKeys == <<"sumDistance", "directDistance">>
CandidateLists == {HrKeys, DistKeys}

Descriptor(key, i) == [key |-> key, metricsIndex |-> Num(i)]

\* Descriptor lists of at most two descriptors with distinct keys
DescriptorLists(keys) ==
    {<<>>}
    \cup { <<Descriptor(k, i)>> : k \in {keys[1], keys[2]}, i \in 0..MaxIndex }
    \cup { <<Descriptor(k1, i1), Descriptor(k2, i2)>> :
             <<k1, i1, k2, i2>> \in
                { q \in {keys[1], keys[2]} \X (0..MaxIndex) \X {keys[1], keys[2]} \X (0..MaxIndex) :
                    q[1] # q[3] } }

----------------------------------------------------------------------------
(* Series extraction: webapp.py activity_detail._collect_series, and the    *)
(* legacy ActivityPageManager._collect_series                               *)

\* Sample rows: r.get("metrics") is a list exactly for k = "dict"
NotDictRow == [k |-> "notdict"]
NoMetricsRow == [k |-> "nometrics"]
Row(cells) == [k |-> "dict", metrics |-> cells]
HasMetricsList(r) == r.k = "dict"

\* activity_detail._collect_series
RECURSIVE collect_series_rows(_, _)
collect_series_rows(rows, i) ==
    IF rows = <<>> THEN <<>>
    ELSE LET r == Head(rows)
             cell == IF ~HasMetricsList(r) \/ i >= Len(r.metrics)
                     THEN None
                     ELSE safe_float(r.metrics[i + 1])
         IN <<cell>> \o collect_series_rows(Tail(rows), i)

\* ActivityPageManager._collect_series: short rows and null cells are dropped
RECURSIVE collect_series_dropping(_, _)
collect_series_dropping(rows, idx) ==
    IF IsNone(idx) \/ rows = <<>> THEN <<>>
    ELSE LET r == Head(rows)
             keep == HasMetricsList(r) /\ idx.v < Len(r.metrics)
                     /\ ~IsNone(r.metrics[idx.v + 1])
         IN (IF keep THEN <<r.metrics[idx.v + 1]>> ELSE <<>>)
            \o collect_series_dropping(Tail(rows), idx)

collect_series(rows, idx) ==
    IF IsNone(idx) THEN <<>> ELSE collect_series_rows(rows, idx.v)

SeriesRowKinds ==
    { NotDictRow, NoMetricsRow, Row(<<>>), Row(<<Num(5)>>),
      Row(<<None, Num(7), Num(9)>>), Row(<<Num(0), Junk, None>>) }

RowLists(kinds, n) == UNION { [1..len -> kinds] : len \in 0..n }

InitResolve ==
    /\ \E keys \in CandidateLists :
         \E md \in DescriptorLists(keys) :
            \E rows \in RowLists(SeriesRowKinds, MaxSeriesRows) :
               args = [fn |-> "resolve", md |-> md, keys |-> keys, rows |-> rows]
    /\ ret = None
    /\ pc = "call"
    /\ TaskIdle
    /\ PlanIdle

\* webapp.py: idx_map built from the descriptors, then "get(a) or get(b)"
CallResolveWebapp ==
    /\ pc = "call"
    /\ args.fn = "resolve"
    /\ ret' = [k |-> "idx", by |-> "webapp",
               idx |-> resolve_or(build_index_map(args.md), args.keys)]
    /\ pc' = "resolved"
    /\ UNCHANGED <<args, taskVars, planVars>>

\* activity_page_manager.py: _index_of(descriptors, keys)
CallIndexOf ==
    /\ pc = "call"
    /\ args.fn = "resolve"
    /\ ret' = [k |-> "idx", by |-> "page_manager", idx |-> index_of(args.md, args.keys)]
    /\ pc' = "resolved"
    /\ UNCHANGED <<args, taskVars, planVars>>

\* activity_detail: _collect_series(rows, <resolved index>)
CallCollectSeries ==
    /\ pc = "resolved"
    /\ args.fn = "resolve"
    /\ ret' = [k |-> "series", by |-> ret.by, idx |-> ret.idx,
               series |-> collect_series(args.rows, ret.idx)]
    /\ pc' = "done"
    /\ UNCHANGED <<args, taskVars, planVars>>

NextResolve == CallResolveWebapp \/ CallIndexOf \/ CallCollectSeries

SpecResolve == InitResolve /\ [][NextResolve]_vars

KeyPresent(md, key) == \E i \in 1..Len(md) : md[i].key = key
DeclaredIndex(md, key) == md[CHOOSE i \in 1..Len(md) : md[i].key = key].metricsIndex

\* The claim's resolution: the metricsIndex of the first candidate key present
FirstCandidateIndex(md, keys) ==
    IF \E n \in 1..Len(keys) : KeyPresent(md, keys[n])
    THEN DeclaredIndex(md, keys[CHOOSE n \in 1..Len(keys) :
                                   /\ KeyPresent(md, keys[n])
                                   /\ \A m \in 1..Len(keys) : KeyPresent(md, keys[m]) => n <= m])
    ELSE None

\* C5: resolving a prioritized candidate list yields the metricsIndex of the
\* first candidate key present in the descriptor list, index 0 included, and
\* "not found" only when no candidate key is present.
C5_FirstCandidateResolved ==
    (args.fn = "resolve" /\ pc \in {"resolved", "done"}) =>
        ret.idx = FirstCandidateIndex(args.md, args.keys)

\* The same statement for ActivityPageManager._index_of alone, which meets it.
C5_IndexOfMeetsClaim ==
    (args.fn = "resolve" /\ pc \in {"resolved", "done"} /\ ret.by = "page_manager") =>
        ret.idx = FirstCandidateIndex(args.md, args.keys)

CellIsNull(r, i) ==
    \/ ~HasMetricsList(r)
    \/ Len(r.metrics) < i + 1
    \/ ~IsNum(r.metrics[i + 1])

\* C6: for a resolved column index the series has one entry per sample row;
\* entry i is null exactly when row i has no metrics list, is shorter than
\* index+1 or holds a null or non-numeric cell there, and is the row's numeric
\* value otherwise.
C6_SeriesAligned ==
    (args.fn = "resolve" /\ pc = "done" /\ IsNum(ret.idx)) =>
        /\ Len(ret.series) = Len(args.rows)
        /\ \A i \in 1..Len(args.rows) :
             /\ IsNone(ret.series[i]) <=> CellIsNull(args.rows[i], ret.idx.v)
             /\ ~CellIsNull(args.rows[i], ret.idx.v) =>
                    ret.series[i] = args.rows[i].metrics[ret.idx.v + 1]

C6_Witness ==
    /\ args.fn = "resolve"
    /\ pc = "done"
    /\ ret.idx = Num(1)
    /\ args.rows = <<Row(<<None, Num(7), Num(9)>>), Row(<<Num(5)>>)>>
    /\ ret.series = <<Num(7), None>>

----------------------------------------------------------------------------
(* Per-sample zone attribution: webapp.py _compute_zone_load_from_metrics   *)

MaxRows == 3
MsPerSecond == 1000
MaxGapSeconds == 30
MaxStepMeters == 200

\* [0.0] * 6
ZeroByZone == [z \in 0..5 |-> 0]
ZeroLoad == [sec |-> ZeroByZone, m |-> ZeroByZone]

AddByZone(f, g) == [z \in 0..5 |-> f[z] + g[z]]
AddLoad(a, b) == [sec |-> AddByZone(a.sec, b.sec), m |-> AddByZone(a.m, b.m)]
SumByZone(f) == f[0] + f[1] + f[2] + f[3] + f[4] + f[5]

\* _get_metric(r, idx)
get_metric(r, idx) ==
    IF IsNone(idx) THEN None
    ELSE IF ~HasMetricsList(r) \/ idx.v >= Len(r.metrics) THEN None
    ELSE safe_float(r.metrics[idx.v + 1])

\* rows = [r for r in rows_raw if isinstance(r, dict)]
dict_rows(rows_raw) == SelectSeq(rows_raw, LAMBDA r : r.k # "notdict")

\* The column indexes the function resolves (lines 606-618)
metric_indexes(md) ==
    LET idx_map == build_index_map(md)
    IN [hr_idx |-> resolve_or(idx_map, HrKeys),
        t_idx |-> dict_get(idx_map, "sumElapsedDuration"),
        ts_idx |-> dict_get(idx_map, "directTimestamp"),
        dist_idx |-> resolve_or(idx_map, DistKeys)]

\* dt_s, in milliseconds: from sumElapsedDuration (seconds) when both samples
\* have it, else from directTimestamp (ms epoch), else unknown
dt_of(prev_t, cur_t, prev_ts, cur_ts) ==
    IF IsNum(cur_t) /\ IsNum(prev_t) THEN Num((cur_t.v - prev_t.v) * MsPerSecond)
    ELSE IF IsNum(cur_ts) /\ IsNum(prev_ts) THEN Num(cur_ts.v - prev_ts.v)
    ELSE None

\* not (0.0 < dt_s <= 30.0), or dt_s unknown
dt_rejected(dt_s) ==
    IsNone(dt_s) \/ ~(0 < dt_s.v /\ dt_s.v <= MaxGapSeconds * MsPerSecond)

\* A rejected pair that leaves the previous sample in place
reject_pair_keep_prev(st, cur_t, cur_ts, cur_dist) == st

\* line 667: prev_t, prev_ts, prev_dist = cur_t, cur_ts, cur_dist; continue
reject_pair(st, cur_t, cur_ts, cur_dist) ==
    [st EXCEPT !.prev_t = cur_t, !.prev_ts = cur_ts, !.prev_dist = cur_dist]

\* lines 669-678: an accepted pair
accept_pair(st, hr, dt_s, dd0, cur_t, cur_ts, cur_dist, zones) ==
    LET dd_m == IF IsNum(dd0) /\ ~(0 <= dd0.v /\ dd0.v <= MaxStepMeters) THEN None ELSE dd0
        z == zone_for_hr(hr, zones)
        sec1 == IF IsNone(z) THEN st.sec
                ELSE [st.sec EXCEPT ![z.v] = @ + dt_s.v]
        m1 == IF IsNone(z) \/ IsNone(dd_m) THEN st.m
              ELSE [st.m EXCEPT ![z.v] = @ + dd_m.v]
    IN [prev_t |-> cur_t, prev_ts |-> cur_ts, prev_dist |-> cur_dist,
        sec |-> sec1, m |-> m1]

\* The body of "for r in rows[1:]"
loop_body(st, r, ix, zones) ==
    LET hr == get_metric(r, ix.hr_idx)
        cur_t == get_metric(r, ix.t_idx)
        cur_ts == get_metric(r, ix.ts_idx)
        cur_dist == get_metric(r, ix.dist_idx)
        dt_s == dt_of(st.prev_t, cur_t, st.prev_ts, cur_ts)
        dd0 == IF IsNum(cur_dist) /\ IsNum(st.prev_dist)
               THEN Num(cur_dist.v - st.prev_dist.v) ELSE None
    IN IF dt_rejected(dt_s)
       THEN reject_pair(st, cur_t, cur_ts, cur_dist)
       ELSE accept_pair(st, hr, dt_s, dd0, cur_t, cur_ts, cur_dist, zones)

RECURSIVE loop_rows(_, _, _, _)
loop_rows(st, rows, ix, zones) ==
    IF rows = <<>> THEN st
    ELSE loop_rows(loop_body(st, Head(rows), ix, zones), Tail(rows), ix, zones)

compute_zone_load_from_metrics(details_dict, zones) ==
    IF ~("metricDescriptors" \in DOMAIN details_dict)
       \/ ~("activityDetailMetrics" \in DOMAIN details_dict)
    THEN ZeroLoad
    ELSE LET ix == metric_indexes(details_dict.metricDescriptors)
             rows == dict_rows(details_dict.activityDetailMetrics)
         IN IF IsNone(ix.hr_idx) \/ (IsNone(ix.t_idx) /\ IsNone(ix.ts_idx)) THEN ZeroLoad
            ELSE IF Len(rows) < 2 THEN ZeroLoad
            ELSE LET st0 == [prev_t |-> get_metric(rows[1], ix.t_idx),
                             prev_ts |-> get_metric(rows[1], ix.ts_idx),
                             prev_dist |-> get_metric(rows[1], ix.dist_idx),
                             sec |-> ZeroByZone, m |-> ZeroByZone]
                     st == loop_rows(st0, Tail(rows), ix, zones)
                 IN [sec |-> st.sec, m |-> st.m]

\* Descriptor layouts met in detail bundles
LayoutElapsed ==
    <<Descriptor("sumElapsedDuration", 0), Descriptor("directHeartRate", 1),
      Descriptor("sumDistance", 2)>>
LayoutTimestamp ==
    <<Descriptor("heartRate", 0), Descriptor("directTimestamp", 1),
      Descriptor("directDistance", 2)>>
LayoutBoth ==
    <<Descriptor("sumElapsedDuration", 0), Descriptor("directTimestamp", 1),
      Descriptor("directHeartRate", 2), Descriptor("sumDistance", 3)>>
LayoutHrFirst ==
    <<Descriptor("directHeartRate", 0), Descriptor("sumElapsedDuration", 1),
      Descriptor("sumDistance", 2)>>
LayoutNoTime == <<Descriptor("directHeartRate", 1)>>
Layouts == {LayoutElapsed, LayoutTimestamp, LayoutBoth, LayoutHrFirst, LayoutNoTime}

\* One recorded instant: heart rate, elapsed seconds, epoch ms, metres
Sample(hr, t, ts, dist) == [hr |-> hr, t |-> t, ts |-> ts, dist |-> dist]
Samples ==
    { Sample(Num(110), Num(0), Num(0), Num(0)),
      Sample(Num(150), Num(10), Num(10000), Num(100)),
      Sample(Num(150), Num(40), Num(40000), Num(150)),
      Sample(Num(190), None, Num(45000), Num(400)),
      Sample(None, Num(50), Num(50000), None),
      Sample(Num(110), Num(50), Num(70500), Num(160)) }

SampleField(s, key) ==
    CASE key \in {"directHeartRate", "heartRate"} -> s.hr
      [] key = "sumElapsedDuration" -> s.t
      [] key = "directTimestamp" -> s.ts
      [] key \in {"sumDistance", "directDistance"} -> s.dist

\* The row a device writes for a sample under a layout
SampleRow(s, layout) ==
    LET used == {layout[i].metricsIndex.v : i \in 1..Len(layout)}
        width == 1 + CHOOSE n \in used : \A j \in used : j <= n
    IN Row([c \in 1..width |->
              IF \E i \in 1..Len(layout) : layout[i].metricsIndex.v = c - 1
              THEN SampleField(s, layout[CHOOSE i \in 1..Len(layout) :
                                            layout[i].metricsIndex.v = c - 1].key)
              ELSE None])

LayoutRows(layout) == {SampleRow(s, layout) : s \in Samples} \cup {NotDictRow, Row(<<>>)}

DetailBundles ==
    { [metricDescriptors |-> layout, activityDetailMetrics |-> rows] :
        <<layout, rows>> \in
            UNION { {layout} \X RowLists(LayoutRows(layout), MaxRows) : layout \in Layouts } }
    \cup { [metricDescriptors |-> LayoutElapsed], [activityDetailMetrics |-> <<>>] }

InitLoad ==
    /\ \E d \in DetailBundles :
          args = [fn |-> "compute_zone_load_from_metrics",
                  details_dict |-> d, zones |-> ScenarioZones]
    /\ ret = None
    /\ pc = "call"
    /\ TaskIdle
    /\ PlanIdle

CallComputeZoneLoad ==
    /\ pc = "call"
    /\ args.fn = "compute_zone_load_from_metrics"
    /\ ret' = compute_zone_load_from_metrics(args.details_dict, args.zones)
    /\ pc' = "done"
    /\ UNCHANGED <<args, taskVars, planVars>>

NextLoad == CallComputeZoneLoad

SpecLoad == InitLoad /\ [][NextLoad]_vars

\* The time delta of the pair (prev, cur) as the function measures it
PairDt(prev, cur, ix) ==
    dt_of(get_metric(prev, ix.t_idx), get_metric(cur, ix.t_idx),
          get_metric(prev, ix.ts_idx), get_metric(cur, ix.ts_idx))

WithRows(d, rows) == [d EXCEPT !.activityDetailMetrics = rows]

\* C2: a pair of consecutive samples whose dt is unknown or outside (0, 30] s
\* adds nothing to any zone, and the next pair is measured from the later
\* sample of the rejected pair: the result is the load of the samples up to
\* the earlier one plus the load of the samples from the later one on.
C2_RejectedPairAddsNothing ==
    (args.fn = "compute_zone_load_from_metrics" /\ pc = "done"
     /\ "metricDescriptors" \in DOMAIN args.details_dict
     /\ "activityDetailMetrics" \in DOMAIN args.details_dict) =>
        LET d == args.details_dict
            ix == metric_indexes(d.metricDescriptors)
            rows == dict_rows(d.activityDetailMetrics)
        IN \A i \in 2..Len(rows) :
              dt_rejected(PairDt(rows[i - 1], rows[i], ix)) =>
                 ret = AddLoad(
                          compute_zone_load_from_metrics(
                              WithRows(d, SubSeq(rows, 1, i - 1)), args.zones),
                          compute_zone_load_from_metrics(
                              WithRows(d, SubSeq(rows, i, Len(rows))), args.zones))

\* Samples at 0 s, 40 s and 50 s: the 40 s pair is rejected, the following
\* 10 s pair is measured from the 40 s sample and lands in zone 1.
C2_Witness ==
    /\ args.fn = "compute_zone_load_from_metrics"
    /\ pc = "done"
    /\ "metricDescriptors" \in DOMAIN args.details_dict
    /\ "activityDetailMetrics" \in DOMAIN args.details_dict
    /\ args.details_dict.metricDescriptors = LayoutElapsed
    /\ args.details_dict.activityDetailMetrics =
          << SampleRow(Sample(Num(110), Num(0), Num(0), Num(0)), LayoutElapsed),
             SampleRow(Sample(Num(150), Num(40), Num(40000), Num(150)), LayoutElapsed),
             SampleRow(Sample(Num(110), Num(50), Num(70500), Num(160)), LayoutElapsed) >>
    /\ ret.sec = [ZeroByZone EXCEPT ![1] = 10000]
    /\ ret.m = [ZeroByZone EXCEPT ![1] = 10]

----------------------------------------------------------------------------
(* datetime.date arithmetic (proleptic Gregorian calendar)                  *)

Date(y, m, d) == [year |-> y, month |-> m, day |-> d]
CalendarYears == 2019..2030

IsLeap(y) == y % 4 = 0 /\ (y % 100 # 0 \/ y % 400 = 0)

\* The month-length table of _add_months
DaysInMonth(y, m) ==
    CASE m \in {1, 3, 5, 7, 8, 10, 12} -> 31
      [] m \in {4, 6, 9, 11} -> 30
      [] m = 2 -> IF IsLeap(y) THEN 29 ELSE 28

DaysBeforeYear(y) ==
    365 * (y - 1) + ((y - 1) \div 4) - ((y - 1) \div 100) + ((y - 1) \div 400)

RECURSIVE DaysBeforeMonth(_, _)
DaysBeforeMonth(y, m) ==
    IF m = 1 THEN 0 ELSE DaysBeforeMonth(y, m - 1) + DaysInMonth(y, m - 1)

\* date.toordinal()
ToOrdinal(d) == DaysBeforeYear(d.year) + DaysBeforeMonth(d.year, d.month) + d.day

\* date.fromordinal(n)
YearOfOrdinal(n) ==
    CHOOSE y \in CalendarYears : DaysBeforeYear(y) < n /\ n <= DaysBeforeYear(y + 1)

MonthOfDayOfYear(y, r) ==
    CHOOSE m \in 1..12 :
        DaysBeforeMonth(y, m) < r /\ r <= DaysBeforeMonth(y, m) + DaysInMonth(y, m)

FromOrdinal(n) ==
    Once(LAMBDA v :
           Once(LAMBDA y :
                  Once(LAMBDA m : Date(y, m, v - DaysBeforeYear(y) - DaysBeforeMonth(y, m)),
                       MonthOfDayOfYear(y, v - DaysBeforeYear(y))),
                YearOfOrdinal(v)),
         n)

\* d + timedelta(days=n)
AddDays(d, n) == FromOrdinal(ToOrdinal(d) + n)

\* date.weekday(): Monday is 0
weekday(d) == (ToOrdinal(d) + 6) % 7

\* d.replace(day=1)
FirstOfMonth(d) == Date(d.year, d.month, 1)

\* _add_months(d, months)
add_months(d, months) ==
    LET y == d.year + ((d.month - 1 + months) \div 12)
        m == ((d.month - 1 + months) % 12) + 1
    IN Date(y, m, Min2(d.day, DaysInMonth(y, m)))

DateLt(a, b) == ToOrdinal(a) < ToOrdinal(b)
DateLe(a, b) == ToOrdinal(a) <= ToOrdinal(b)

\* datetime values: a date and the seconds since midnight
DateTime(d, secs) == [k |-> "datetime", date |-> d, secs |-> secs]
\* dt.datetime.combine(d, dt.time.min)
Midnight(d) == DateTime(d, 0)
DtLe(a, b) ==
    \/ ToOrdinal(a.date) < ToOrdinal(b.date)
    \/ (a.date = b.date /\ a.secs <= b.secs)
DtLt(a, b) ==
    \/ ToOrdinal(a.date) < ToOrdinal(b.date)
    \/ (a.date = b.date /\ a.secs < b.secs)

----------------------------------------------------------------------------
(* Strings that the code strips and lower-cases, as character sequences     *)

WEEK == <<"w", "e", "e", "k">>
MONTH == <<"m", "o", "n", "t", "h">>
YEAR == <<"y", "e", "a", "r">>

\* str.lower() on the characters the model uses
LowerChar(c) ==
    CASE c = "W" -> "w" [] c = "M" -> "m" [] c = "Y" -> "y" [] c = "D" -> "d"
      [] c = "E" -> "e" [] c = "K" -> "k" [] c = "O" -> "o" [] c = "N" -> "n"
      [] c = "T" -> "t" [] c = "H" -> "h" [] c = "A" -> "a" [] c = "R" -> "r"
      [] c = "B" -> "b" [] c = "L" -> "l" [] c = "I" -> "i" [] c = "C" -> "c"
      [] OTHER -> c
str_lower(s) == [i \in 1..Len(s) |-> LowerChar(s[i])]

\* str.strip()
RECURSIVE str_lstrip(_)
str_lstrip(s) == IF s # <<>> /\ Head(s) = " " THEN str_lstrip(Tail(s)) ELSE s
RECURSIVE str_rstrip(_)
str_rstrip(s) ==
    IF s # <<>> /\ s[Len(s)] = " " THEN str_rstrip(SubSeq(s, 1, Len(s) - 1)) ELSE s
str_strip(s) == str_rstrip(str_lstrip(s))

\* (s or default): the empty string and a missing argument are falsy
str_or(s, default) == IF s = <<>> THEN default ELSE s

----------------------------------------------------------------------------
(* Period window: webapp.py _period_bounds                                  *)

\* A "week" window that starts a day too early
week_bounds_8_days(anchor) ==
    [start_date |-> AddDays(anchor, -7), end_date |-> AddDays(anchor, 1)]

\* Rolling 7 days (includes anchor day)
week_bounds(anchor) ==
    [start_date |-> AddDays(anchor, -6), end_date |-> AddDays(anchor, 1)]

\* Rolling 4 full weeks, aligned on ISO weeks
month_bounds(anchor) ==
    LET anchor_week_start == AddDays(anchor, -weekday(anchor))
    IN [start_date |-> AddDays(anchor_week_start, -21),
        end_date |-> AddDays(anchor_week_start, 7)]

\* Rolling 12 months (includes current month)
year_bounds(anchor) ==
    LET end_month_start == FirstOfMonth(anchor)
    IN [start_date |-> add_months(end_month_start, -11),
        end_date |-> add_months(end_month_start, 1)]

\* The period _period_bounds works with: unknown values become "week"
bounds_period(period) ==
    LET p == str_lower(str_strip(str_or(period, WEEK)))
    IN IF p \in {WEEK, MONTH, YEAR} THEN p ELSE WEEK

period_bounds(period, anchor) ==
    LET p == bounds_period(period)
        b == IF p = WEEK THEN week_bounds(anchor)
             ELSE IF p = MONTH THEN month_bounds(anchor)
             ELSE year_bounds(anchor)
    IN [start_dt |-> Midnight(b.start_date), end_dt |-> Midnight(b.end_date),
        start_date |-> b.start_date, end_date |-> b.end_date]

----------------------------------------------------------------------------
(* The dashboard handler: webapp.py dashboard()                             *)
(* An activity's start is the value of _parse_activity_dt: a datetime, or   *)
(* None for an absent or unparseable startTimeLocal.  Distances are whole   *)
(* metres; the time-share of a summary distance is truncated to a metre.    *)

\* float(a.get(name) or 0.0), 0.0 on failure
float_or_zero(x) == IF IsNum(x) THEN x.v ELSE 0

\* dict.get(k, 0.0) on a bucket dictionary
bucket_get(b, key) == IF key \in DOMAIN b THEN b[key] ELSE 0

\* b[k] = b.get(k, 0.0) + v
bucket_add(b, key, v) ==
    [x \in DOMAIN b \cup {key} |-> IF x = key THEN bucket_get(b, key) + v ELSE b[x]]

in_range(a, pb) ==
    /\ ~IsNone(a.start)
    /\ DtLe(pb.start_dt, a.start)
    /\ DtLt(a.start, pb.end_dt)

\* acts_in_range.sort(key=startTimeLocal, reverse=True): stable, newest first
RECURSIVE sort_newest_first(_)
sort_newest_first(acts) ==
    IF acts = <<>> THEN <<>>
    ELSE LET n == Len(acts)
             sorted == sort_newest_first(SubSeq(acts, 1, n - 1))
             x == acts[n]
             before == SelectSeq(sorted, LAMBDA y : DtLe(x.start, y.start))
             after == SelectSeq(sorted, LAMBDA y : ~DtLe(x.start, y.start))
         IN before \o <<x>> \o after

\* lines 898-908: the displayed bucket keys (isoformat dates)
bucket_keys_for(period, start_date) ==
    IF period = WEEK THEN [i \in 1..7 |-> AddDays(start_date, i - 1)]
    ELSE IF period = MONTH THEN [i \in 1..4 |-> AddDays(start_date, 7 * (i - 1))]
    ELSE [i \in 1..12 |-> add_months(FirstOfMonth(start_date), i - 1)]

\* lines 950-956: the bucket key of an activity
bucket_key(period, d) ==
    IF period = WEEK THEN d
    ELSE IF period = MONTH THEN AddDays(d, -weekday(d))
    ELSE FirstOfMonth(d)

\* A fallback that ignores the average heart rate
fallback_zone_always_first(av_hr, zones) == 1

\* lines 990-992: fallback_zone
fallback_zone(av_hr, zones) ==
    LET z == IF ~IsNone(av_hr) THEN zone_for_hr(av_hr, zones) ELSE Num(1)
    IN IF IsNone(z) THEN 1 ELSE z.v

\* A zone loop that stops before zone 5
add_zones_1_to_4(acc, part) ==
    [z \in 0..5 |-> IF z \in 1..4 THEN acc[z] + part[z] ELSE acc[z]]

\* for z in range(1, 6): acc[z] += part[z]
add_zones_1_to_5(acc, part) ==
    [z \in 0..5 |-> IF z \in 1..5 THEN acc[z] + part[z] ELSE acc[z]]

\* lines 969-970: the detail bundle of an activity, or None
details_of(a, details_map) ==
    IF IsNone(a.activityId) THEN None
    ELSE IF ~(a.activityId.v \in DOMAIN details_map) THEN None
    ELSE details_map[a.activityId.v]

\* lines 961-995: the zone totals after one activity
zone_step(st, a, dist_m, dur_s, zones, details_map) ==
    LET av_hr == safe_float(a.averageHR)
        details_dict == details_of(a, details_map)
        load == IF details_dict.k = "details"
                THEN compute_zone_load_from_metrics(details_dict.details, zones)
                ELSE ZeroLoad
        s_total == SumByZone(load.sec)
    IN IF s_total > 0
       THEN LET share == [z \in 0..5 |-> (dist_m * load.sec[z]) \div s_total]
                m1 == add_zones_1_to_5(st.m_by_zone, load.m)
            IN [st EXCEPT !.sec_by_zone = add_zones_1_to_5(st.sec_by_zone, load.sec),
                          !.m_by_zone = IF SumByZone(load.m) <= 0 /\ dist_m > 0
                                        THEN add_zones_1_to_5(m1, share)
                                        ELSE m1]
       ELSE LET fz == fallback_zone(av_hr, zones)
            IN [st EXCEPT !.sec_by_zone[fz] = @ + dur_s * MsPerSecond,
                          !.m_by_zone[fz] = IF dist_m > 0 THEN @ + dist_m ELSE @]

\* lines 912-995: the body of "for a in acts_in_range"
activity_step(st, a, period, requested_sport, zones, details_map) ==
    LET dist_m == float_or_zero(a.distance)
        dur_s == float_or_zero(a.duration)
        load == float_or_zero(a.activityTrainingLoad)
        include_in_charts == requested_sport \in {"", "all"} \/ requested_sport = a.sport
        key == bucket_key(period, a.start.date)
        st1 == [st EXCEPT !.total_dist_m = @ + dist_m,
                          !.total_dur_s = @ + dur_s,
                          !.total_load = IF load > 0 THEN @ + load ELSE @]
        st2 == IF ~IsNone(a.start) /\ include_in_charts
               THEN [st1 EXCEPT !.load_bucket = bucket_add(@, key, load),
                                !.dur_bucket = bucket_add(@, key, dur_s),
                                !.dist_bucket = bucket_add(@, key, dist_m)]
               ELSE st1
    IN IF zones = None THEN st2
       ELSE zone_step(st2, a, dist_m, dur_s, zones, details_map)

RECURSIVE activity_loop(_, _, _, _, _, _)
activity_loop(st, acts, period, requested_sport, zones, details_map) ==
    IF acts = <<>> THEN st
    ELSE Once(LAMBDA st1 :
                activity_loop(st1, Tail(acts), period, requested_sport, zones, details_map),
              activity_step(st, Head(acts), period, requested_sport, zones, details_map))

\* lines 997-1005: a chart point is None for an empty bucket
chart_points(keys, bucket) ==
    [i \in 1..Len(keys) |->
        IF bucket_get(bucket, keys[i]) > 0 THEN Num(bucket_get(bucket, keys[i])) ELSE None]

\* lines 1137-1146: navigation anchors
nav_anchors(period, anchor_date) ==
    IF period = WEEK
    THEN [prev_anchor |-> AddDays(anchor_date, -7), next_anchor |-> AddDays(anchor_date, 7)]
    ELSE IF period = MONTH
    THEN [prev_anchor |-> AddDays(anchor_date, -28), next_anchor |-> AddDays(anchor_date, 28)]
    ELSE [prev_anchor |-> add_months(anchor_date, -12),
          next_anchor |-> add_months(anchor_date, 12)]

\* lines 816-823, 898-908, 1137-1146: what depends on period and anchor only
dashboard_window(request) ==
    LET period == str_lower(str_strip(str_or(request.period, WEEK)))
    IN Once(LAMBDA pb :
              [period |-> period, pb |-> pb,
               bucket_keys |-> bucket_keys_for(period, pb.start_date),
               nav |-> nav_anchors(period, request.anchor)],
            period_bounds(period, request.anchor))

\* lines 868-879: the activities that start in the window, newest first
dashboard_acts_in_range(request, pb) ==
    sort_newest_first(SelectSeq(request.acts, LAMBDA a : in_range(a, pb)))

\* the state of the accumulators before the loop over acts_in_range
dashboard_st0 ==
    [total_dist_m |-> 0, total_dur_s |-> 0, total_load |-> 0,
     load_bucket |-> <<>>, dur_bucket |-> <<>>, dist_bucket |-> <<>>,
     sec_by_zone |-> ZeroByZone, m_by_zone |-> ZeroByZone]

\* what the template receives
dashboard_result(w, acts_in_range, st) ==
    [period |-> w.period,
     start_date |-> w.pb.start_date, end_date |-> w.pb.end_date,
     acts_in_range |-> acts_in_range,
     total_dist_m |-> st.total_dist_m, total_dur_s |-> st.total_dur_s,
     total_load |-> st.total_load,
     bucket_keys |-> w.bucket_keys,
     load_bucket |-> st.load_bucket, dur_bucket |-> st.dur_bucket,
     dist_bucket |-> st.dist_bucket,
     load_points_y |-> chart_points(w.bucket_keys, st.load_bucket),
     dur_points_y |-> chart_points(w.bucket_keys, st.dur_bucket),
     dist_points_y |-> chart_points(w.bucket_keys, st.dist_bucket),
     sec_by_zone |-> st.sec_by_zone, m_by_zone |-> st.m_by_zone,
     prev_anchor |-> w.nav.prev_anchor, next_anchor |-> w.nav.next_anchor]

dashboard(request) ==
    Once(LAMBDA w :
           Once(LAMBDA acts_in_range :
                  Once(LAMBDA st : dashboard_result(w, acts_in_range, st),
                       activity_loop(dashboard_st0, acts_in_range, w.period,
                                     request.sport, request.zones, request.details_map)),
                dashboard_acts_in_range(request, w.pb)),
         dashboard_window(request))

CallDashboard ==
    /\ pc = "call"
    /\ args.fn = "dashboard"
    /\ \E out \in {dashboard(args)} : ret' = out
    /\ pc' = "done"
    /\ UNCHANGED <<args, taskVars, planVars>>

MaxActs == 2
AnchorSpan == 6

Activity(start, duration, distance, load, averageHR, activityId, sport) ==
    [start |-> start, duration |-> duration, distance |-> distance,
     activityTrainingLoad |-> load, averageHR |-> averageHR,
     activityId |-> activityId, sport |-> sport]

Details(layout, samples) ==
    [k |-> "details",
     details |-> [metricDescriptors |-> layout,
                  activityDetailMetrics |->
                      [i \in 1..Len(samples) |-> SampleRow(samples[i], layout)]]]

\* <user>_activity_details.json: entries by activityId
ZoneDetailsMap ==
    [aid \in {1, 2, 5, 6} |->
        CASE aid = 1 ->
               Details(LayoutElapsed,
                       << Sample(Num(110), Num(0), Num(0), Num(0)),
                          Sample(Num(150), Num(10), Num(10000), Num(100)),
                          Sample(Num(150), Num(40), Num(40000), Num(150)) >>)
          [] aid = 2 ->
               Details(LayoutHrFirst,
                       << Sample(Num(110), Num(0), Num(0), Num(0)),
                          Sample(Num(150), Num(10), Num(10000), Num(100)) >>)
          [] aid = 5 -> [k |-> "nodetails"]
          [] aid = 6 ->
               Details(LayoutTimestamp,
                       << Sample(Num(150), Num(40), Num(40000), Num(150)),
                          Sample(Num(190), None, Num(45000), Num(400)),
                          Sample(Num(110), Num(50), Num(70500), Num(160)) >>)]

ZoneAnchor == Date(2024, 3, 15)

\* <user>_activities.json records around the week ending on ZoneAnchor
ZoneActivities ==
    { Activity(DateTime(Date(2024, 3, 10), 28800), Num(60), Num(500), Num(10),
               Num(150), Num(1), "running"),
      Activity(DateTime(Date(2024, 3, 11), 28800), Num(1500), Num(5000), None,
               Num(150), Num(2), "cycling"),
      Activity(DateTime(Date(2024, 3, 12), 28800), Num(1500), Num(5000), Num(20),
               Num(150), Num(3), "running"),
      Activity(DateTime(Date(2024, 3, 9), 0), Num(600), None, None,
               None, None, "other"),
      Activity(DateTime(Date(2024, 3, 15), 86399), Num(100), Num(1000), Num(5),
               Num(190), Num(5), "running"),
      Activity(DateTime(Date(2024, 3, 13), 28800), Num(40), Num(305), Num(7),
               None, Num(6), "running"),
      Activity(DateTime(Date(2024, 3, 16), 0), Num(700), Num(100), Num(3),
               Num(150), Num(3), "running"),
      Activity(None, Num(800), Num(200), Num(4), Num(150), Num(3), "running"),
      Activity(DateTime(Date(2024, 3, 14), 28800), Num(300), Num(900), Num(9),
               Num(120), None, "cycling"),
      Activity(DateTime(Date(2024, 3, 8), 86399), Num(900), Num(300), Num(2),
               Num(150), Num(3), "running") }

ActivityLists(n) == UNION { [1..len -> ZoneActivities] : len \in 0..n }

\* Requests whose zone breakdown is under check
ZoneRequests ==
    { [fn |-> "dashboard", period |-> WEEK, anchor |-> ZoneAnchor, sport |-> "all",
       acts |-> acts, details_map |-> ZoneDetailsMap, zones |-> zones] :
        acts \in ActivityLists(MaxActs), zones \in {ScenarioZones, None} }

\* request.args.get("period"): missing, exact, padded / capitalised, unknown
RawPeriods ==
    { <<>>, WEEK, MONTH, YEAR, <<" ", "M", "o", "n", "t", "h">>,
      <<"d", "a", "y">>, <<" ">> }

AnchorBases == { Date(2023, 12, 25), Date(2024, 2, 24), Date(2025, 2, 24) }
AnchorDates == { AddDays(b, n) : b \in AnchorBases, n \in 0..AnchorSpan }

\* Start days probing a window, from the eve of the window to its end: every
\* day for a 7-day window, the Mondays and Sundays for a 4-week window, the
\* first and last day of every month for a 12-month window
ProbeDates(period, anchor) ==
    LET pb == period_bounds(period, anchor)
        first == ToOrdinal(pb.start_date) - 1
        last == ToOrdinal(pb.end_date)
        days == { FromOrdinal(n) : n \in first..last }
    IN IF bounds_period(period) = YEAR
       THEN { d \in days : d.day = 1 \/ d.day = DaysInMonth(d.year, d.month) }
       ELSE IF bounds_period(period) = MONTH
       THEN { d \in days : weekday(d) \in {0, 6} \/ d = anchor }
       ELSE days

\* A probe: start day, second of the day, sport filter of the request
Probes(period, anchor) ==
    { <<d, secs, "all">> : d \in ProbeDates(period, anchor), secs \in {0, 86399} }
        \cup { <<anchor, 0, "running">> }

\* Requests whose chart buckets are under check: a probe activity and one at
\* noon of the anchor day
BucketRequests ==
    { [fn |-> "dashboard", period |-> q[1], anchor |-> q[2], sport |-> q[3][3],
       acts |-> << Activity(DateTime(q[3][1], q[3][2]), Num(1800), Num(4000), Num(30),
                            None, None, "cycling"),
                   Activity(DateTime(q[2], 43200), Num(600), Num(2000), None,
                            None, None, "running") >>,
       details_map |-> <<>>, zones |-> None] :
        q \in UNION { {<<p, a, probe>> : probe \in Probes(p, a)} :
                      p \in RawPeriods, a \in AnchorDates } }

InitDash ==
    /\ args \in ZoneRequests \cup BucketRequests
    /\ ret = None
    /\ pc = "call"
    /\ TaskIdle
    /\ PlanIdle

NextDash == CallDashboard

SpecDash == InitDash /\ [][NextDash]_vars

\* The dashboard of the same request without its i-th activity
WithoutActivity(request, i) ==
    [request EXCEPT !.acts =
        SubSeq(request.acts, 1, i - 1) \o SubSeq(request.acts, i + 1, Len(request.acts))]

\* The activity starts inside the returned window [start_date, end_date)
StartsInWindow(a, out) ==
    /\ ~IsNone(a.start)
    /\ ToOrdinal(out.start_date) <= ToOrdinal(a.start.date)
    /\ ToOrdinal(a.start.date) < ToOrdinal(out.end_date)

HasDetailMetrics(a, details_map) ==
    /\ ~IsNone(a.activityId)
    /\ a.activityId.v \in DOMAIN details_map
    /\ details_map[a.activityId.v].k = "details"

\* Milliseconds accepted sample by sample: the pairs with a dt in (0, 30] s
\* whose later sample has a heart rate
AcceptedMs(d) ==
    IF ~("metricDescriptors" \in DOMAIN d) \/ ~("activityDetailMetrics" \in DOMAIN d)
    THEN 0
    ELSE LET ix == metric_indexes(d.metricDescriptors)
             rows == dict_rows(d.activityDetailMetrics)
         IN IF IsNone(ix.hr_idx) THEN 0
            ELSE SumSeq([i \in 1..(Len(rows) - 1) |->
                    IF /\ ~dt_rejected(PairDt(rows[i], rows[i + 1], ix))
                       /\ IsNum(get_metric(rows[i + 1], ix.hr_idx))
                    THEN PairDt(rows[i], rows[i + 1], ix).v
                    ELSE 0])

\* The duration attributed to an activity: the accepted sample time when the
\* detail metrics yield any, otherwise the whole summary duration
AttributedMs(a, details_map) ==
    LET accepted == IF HasDetailMetrics(a, details_map)
                    THEN AcceptedMs(details_map[a.activityId.v].details)
                    ELSE 0
    IN IF accepted > 0 THEN accepted ELSE float_or_zero(a.duration) * MsPerSecond

\* C3: for a fixed activity list, zone table and window, the zone-seconds
\* summed over zones 1-5 equal the attributed durations summed over the
\* in-window activities, and nothing lands outside zones 1-5.
C3_ZoneTimeConserved ==
    (args.fn = "dashboard" /\ pc = "done" /\ args.zones # None) =>
        /\ ret.sec_by_zone[1] + ret.sec_by_zone[2] + ret.sec_by_zone[3]
             + ret.sec_by_zone[4] + ret.sec_by_zone[5]
           = SumSeq([i \in 1..Len(args.acts) |->
                       IF StartsInWindow(args.acts[i], ret)
                       THEN AttributedMs(args.acts[i], args.details_map)
                       ELSE 0])
        /\ ret.sec_by_zone[0] = 0

\* Two in-window activities: one with accepted samples in zones 1 and 5, one
\* without detail metrics that falls back to its summary duration.
C3_Witness ==
    /\ args.fn = "dashboard"
    /\ pc = "done"
    /\ args.zones = ScenarioZones
    /\ Len(ret.acts_in_range) = 2
    /\ ret.sec_by_zone = [ZeroByZone EXCEPT ![1] = 25500, ![3] = 1500000, ![5] = 5000]

\* The zone the claim gives an activity without detail metrics
ClaimedFallbackZone(a, zones) ==
    IF IsNum(a.averageHR) THEN FirstBand(a.averageHR.v, zones) ELSE 1

\* C4: an in-window activity without detail metrics contributes its whole
\* duration and whole distance to exactly one zone, the zone of its average
\* HR, or zone 1 when the average HR is absent.
C4_FallbackSingleZone ==
    (args.fn = "dashboard" /\ pc = "done" /\ args.zones # None) =>
        \A i \in 1..Len(args.acts) :
            LET a == args.acts[i]
                rest == dashboard(WithoutActivity(args, i))
                fz == ClaimedFallbackZone(a, args.zones)
            IN (StartsInWindow(a, ret) /\ ~HasDetailMetrics(a, args.details_map)) =>
                  \A z \in 0..5 :
                     /\ ret.sec_by_zone[z] - rest.sec_by_zone[z] =
                           IF z = fz THEN float_or_zero(a.duration) * MsPerSecond ELSE 0
                     /\ ret.m_by_zone[z] - rest.m_by_zone[z] =
                           IF z = fz THEN float_or_zero(a.distance) ELSE 0

\* distance 5000, duration 1500, averageHR 150, no detail metrics: zone 3
C4_Witness ==
    /\ args.fn = "dashboard"
    /\ pc = "done"
    /\ args.zones = ScenarioZones
    /\ args.acts = << Activity(DateTime(Date(2024, 3, 12), 28800), Num(1500), Num(5000),
                               Num(20), Num(150), Num(3), "running") >>
    /\ ret.sec_by_zone = [ZeroByZone EXCEPT ![3] = 1500000]
    /\ ret.m_by_zone = [ZeroByZone EXCEPT ![3] = 5000]

MonthIndex(d) == d.year * 12 + d.month

\* C7: the window is half-open and contains the anchor date: for "week" the
\* 7 days ending on the anchor day, for "month" 28 days from a Monday ending
\* with the anchor's week, for "year" 12 calendar months ending with the
\* anchor's month; the next / previous anchor gives the adjacent window.
C7_WindowShape ==
    (args.fn = "dashboard" /\ pc = "done" /\ ret.period \in {WEEK, MONTH, YEAR}) =>
        LET s == ToOrdinal(ret.start_date)
            e == ToOrdinal(ret.end_date)
            anchor == ToOrdinal(args.anchor)
        IN /\ s <= anchor /\ anchor < e
           /\ ret.period = WEEK => (e = anchor + 1 /\ e - s = 7)
           /\ ret.period = MONTH =>
                 /\ weekday(ret.start_date) = 0
                 /\ e - s = 28
                 /\ e - 7 <= anchor
           /\ ret.period = YEAR =>
                 /\ ret.start_date.day = 1
                 /\ ret.end_date.day = 1
                 /\ MonthIndex(ret.end_date) - MonthIndex(ret.start_date) = 12
                 /\ MonthIndex(args.anchor) = MonthIndex(ret.end_date) - 1
           /\ period_bounds(ret.period, ret.next_anchor).start_date = ret.end_date
           /\ period_bounds(ret.period, ret.prev_anchor).end_date = ret.start_date

\* A 12-month window anchored on 29 February
C7_Witness ==
    /\ args.fn = "dashboard"
    /\ pc = "done"
    /\ ret.period = YEAR
    /\ args.anchor = Date(2024, 2, 29)
    /\ ret.start_date = Date(2023, 3, 1)
    /\ ret.end_date = Date(2024, 3, 1)
    /\ ret.next_anchor = Date(2025, 2, 28)

\* The sub-period key that matches a window: the day for a week window, the
\* ISO-week Monday for a month window, the month start for a year window
WindowSubPeriodKey(period, d) ==
    LET p == bounds_period(period)
    IN IF p = WEEK THEN d
       ELSE IF p = MONTH THEN FromOrdinal(ToOrdinal(d) - weekday(d))
       ELSE Date(d.year, d.month, 1)

SeqRange(s) == {s[i] : i \in 1..Len(s)}

\* C8: for every period value, each activity starting in the window adds its
\* duration, distance and load to exactly one chart bucket, keyed by the
\* sub-period that matches the window, and the key is a displayed bucket key
\* (no sport filter set).
C8_ActivityInOneBucket ==
    (args.fn = "dashboard" /\ pc = "done" /\ args.sport = "all") =>
        \A i \in 1..Len(args.acts) :
            LET a == args.acts[i]
                rest == dashboard(WithoutActivity(args, i))
                key == WindowSubPeriodKey(args.period, a.start.date)
            IN StartsInWindow(a, ret) =>
                  /\ key \in SeqRange(ret.bucket_keys)
                  /\ \A x \in DOMAIN ret.dur_bucket \cup {key} :
                        /\ bucket_get(ret.dur_bucket, x) - bucket_get(rest.dur_bucket, x) =
                              IF x = key THEN float_or_zero(a.duration) ELSE 0
                        /\ bucket_get(ret.dist_bucket, x) - bucket_get(rest.dist_bucket, x) =
                              IF x = key THEN float_or_zero(a.distance) ELSE 0
                        /\ bucket_get(ret.load_bucket, x) - bucket_get(rest.load_bucket, x) =
                              IF x = key THEN float_or_zero(a.activityTrainingLoad) ELSE 0

\* The part of C8 the handler keeps for every period value: an in-window
\* activity lands in exactly one of the displayed buckets.
C8_InSomeDisplayedBucket ==
    (args.fn = "dashboard" /\ pc = "done" /\ args.sport = "all") =>
        \A i \in 1..Len(args.acts) :
            LET a == args.acts[i]
                rest == dashboard(WithoutActivity(args, i))
            IN StartsInWindow(a, ret) =>
                  \E key \in SeqRange(ret.bucket_keys) :
                     \A x \in DOMAIN ret.dur_bucket \cup {key} :
                        bucket_get(ret.dur_bucket, x) - bucket_get(rest.dur_bucket, x) =
                           IF x = key THEN float_or_zero(a.duration) ELSE 0

-----------------------------------------------------------------------------
(* Background tasks: task_manager.py TaskManager                           *)
(* Task ids are 1, 2, ... in creation order (uuid4 never repeats).  The    *)
(* registry _tasks is the set of registered ids; the TaskStatus objects    *)
(* are kept by id and outlive their registry entry, as in Python where a   *)
(* poller may still hold the object.                                       *)

MaxTasks == 2
MaxTime == 3
TtlSeconds == 1

TaskKinds == { "sync_activities" }
TaskUsers == { "alice" }
\* Progress values a target reports, inside and outside [0, 100]
ProgressValues == { -5, 50, 150 }

\* TaskStatus(task_id, kind, user_id, started_at=time.time())
TaskStatus(task_id, kind, user_id, started_at) ==
    [task_id |-> task_id, kind |-> kind, user_id |-> user_id,
     percent |-> 0, message |-> "", state |-> "running", error |-> None,
     started_at |-> started_at, finished_at |-> None]

\* set_progress without the test of the state: the variant writes percent and
\* message whenever the task is registered
set_progress_any_state(registry, st, task_id, p, msg) ==
    IF task_id \notin registry
    THEN st
    ELSE [st EXCEPT ![task_id].percent = Max2(0, Min2(100, p)),
                    ![task_id].message = msg]

\* set_progress: no effect unless the task is registered and running
set_progress(registry, st, task_id, p, msg) ==
    IF task_id \notin registry \/ st[task_id].state # "running"
    THEN st
    ELSE [st EXCEPT ![task_id].percent = Max2(0, Min2(100, p)),
                    ![task_id].message = msg]

\* runner, after the final progress: state = "done" if still registered
mark_done(registry, st, task_id, t) ==
    IF task_id \notin registry THEN st
    ELSE [st EXCEPT ![task_id].state = "done",
                    ![task_id].finished_at = Num(t)]

\* runner, except branch: state = "error" if still registered
mark_error(registry, st, task_id, t) ==
    IF task_id \notin registry THEN st
    ELSE [st EXCEPT ![task_id].state = "error",
                    ![task_id].error = [k |-> "str"],
                    ![task_id].finished_at = Num(t)]

\* Where the runner goes after the block that sets state = "done": the try
\* body ends there, so the thread exits.  The variant re-enters the except
\* branch, as if a statement after the assignment raised.
after_mark_done_raises == "except"
after_mark_done == "exit"

\* cleanup: drop the tasks with (finished_at or started_at) < now - ttl
cleanup(registry, st, t) ==
    LET cutoff == t - TtlSeconds
        stamp(s) == py_or(s.finished_at, Num(s.started_at))
    IN { tid \in registry : ~(stamp(st[tid]).v < cutoff) }

InitTask ==
    /\ PureIdle
    /\ PlanIdle
    /\ tasks = {}
    /\ status = <<>>
    /\ thread = <<>>
    /\ now = 1

\* TaskManager.start: create the status, register it, start the runner
\* thread, run cleanup
Start(kind, user_id) ==
    /\ Len(status) < MaxTasks
    /\ LET task_id == Len(status) + 1
           st == Append(status, TaskStatus(task_id, kind, user_id, now))
       IN /\ status' = st
          /\ thread' = Append(thread, "set_progress_0")
          /\ tasks' = cleanup(tasks \cup {task_id}, st, now)
    /\ UNCHANGED <<now, pureVars, planVars>>

\* TaskManager.cleanup called on its own
Cleanup ==
    /\ tasks' = cleanup(tasks, status, now)
    /\ UNCHANGED <<status, thread, now, pureVars, planVars>>

\* runner: set_progress(0.0, "Demarrage...")
RunnerFirstProgress(t) ==
    /\ thread[t] = "set_progress_0"
    /\ status' = set_progress(tasks, status, t, 0, "start")
    /\ thread' = [thread EXCEPT ![t] = "target"]
    /\ UNCHANGED <<tasks, now, pureVars, planVars>>

\* target(set_progress): the target reports progress
TargetProgress(t, p) ==
    /\ thread[t] = "target"
    /\ status' = set_progress(tasks, status, t, p, "target")
    /\ UNCHANGED <<thread, tasks, now, pureVars, planVars>>

\* the target returns
TargetReturn(t) ==
    /\ thread[t] = "target"
    /\ thread' = [thread EXCEPT ![t] = "set_progress_100"]
    /\ UNCHANGED <<status, tasks, now, pureVars, planVars>>

\* the target raises an Exception
TargetRaise(t) ==
    /\ thread[t] = "target"
    /\ thread' = [thread EXCEPT ![t] = "except"]
    /\ UNCHANGED <<status, tasks, now, pureVars, planVars>>

\* runner: set_progress(100.0, "Termine")
RunnerLastProgress(t) ==
    /\ thread[t] = "set_progress_100"
    /\ status' = set_progress(tasks, status, t, 100, "finished")
    /\ thread' = [thread EXCEPT ![t] = "mark_done"]
    /\ UNCHANGED <<tasks, now, pureVars, planVars>>

RunnerMarkDone(t) ==
    /\ thread[t] = "mark_done"
    /\ status' = mark_done(tasks, status, t, now)
    /\ thread' = [thread EXCEPT ![t] = after_mark_done]
    /\ UNCHANGED <<tasks, now, pureVars, planVars>>

RunnerMarkError(t) ==
    /\ thread[t] = "except"
    /\ status' = mark_error(tasks, status, t, now)
    /\ thread' = [thread EXCEPT ![t] = "exit"]
    /\ UNCHANGED <<tasks, now, pureVars, planVars>>

\* set_progress called once more after the runner has ended (the closure
\* outlives the runner; the targets of webapp.py only call it while they run)
LateProgress(t, p) ==
    /\ thread[t] = "exit"
    /\ status' = set_progress(tasks, status, t, p, "late")
    /\ UNCHANGED <<thread, tasks, now, pureVars, planVars>>

\* time.time() advances
Tick ==
    /\ now < MaxTime
    /\ now' = now + 1
    /\ UNCHANGED <<tasks, status, thread, pureVars, planVars>>

NextTask ==
    \/ \E kind \in TaskKinds, user_id \in TaskUsers : Start(kind, user_id)
    \/ Cleanup
    \/ \E t \in DOMAIN thread : RunnerFirstProgress(t)
    \/ \E t \in DOMAIN thread, p \in ProgressValues : TargetProgress(t, p)
    \/ \E t \in DOMAIN thread : TargetReturn(t)
    \/ \E t \in DOMAIN thread : TargetRaise(t)
    \/ \E t \in DOMAIN thread : RunnerLastProgress(t)
    \/ \E t \in DOMAIN thread : RunnerMarkDone(t)
    \/ \E t \in DOMAIN thread : RunnerMarkError(t)
    \/ \E t \in DOMAIN thread, p \in ProgressValues : LateProgress(t, p)
    \/ Tick

SpecTask == InitTask /\ [][NextTask]_vars

\* C9: a task's state is always running, done or error; it starts as
\* running, changes at most once (to done after the target returned, to
\* error after it raised), and a done or error state never changes again.
C9_StateChangesOnce ==
    [][\A t \in DOMAIN status' :
          /\ status'[t].state \in {"running", "done", "error"}
          /\ t \notin DOMAIN status => status'[t].state = "running"
          /\ t \in DOMAIN status =>
                /\ status[t].state # "running" => status'[t].state = status[t].state
                /\ (status[t].state = "running" /\ status'[t].state = "done")
                      => thread[t] = "mark_done"
                /\ (status[t].state = "running" /\ status'[t].state = "error")
                      => thread[t] = "except"]_vars

\* One task ended done, another ended error, both runner threads have
\* exited and time has passed since.
C9_Witness ==
    \E t, u \in DOMAIN status :
        /\ status[t].state = "done" /\ thread[t] = "exit"
        /\ status[u].state = "error" /\ thread[u] = "exit"
        /\ status[t].finished_at.v < now
        /\ status[u].finished_at.v < now

-----------------------------------------------------------------------------
(* Planned trainings and competitions: the shared files data/trainings.json *)
(* and data/competitions.json and the handlers that rewrite them.           *)
(* An entry of a file is a record; a key the JSON object does not have is   *)
(* None (id, training_id, done) or the empty string (text keys, which the   *)
(* code reads through "x or ''").  Only the keys the handlers test or       *)
(* rewrite are kept: distance_km, description, content and notes are        *)
(* carried along unchanged by every handler, and the old key sport_key is   *)
(* read like sport.                                                         *)

MaxEntries == 2
MaxRequests == 1

ALICE == <<"a", "l", "i", "c", "e">>
BOB == <<"b", "o", "b">>
PlanUsers == { ALICE, BOB }

StrId(s) == [k |-> "id", s |-> s]
Uuid4(n) == [k |-> "uuid4", n |-> n]
Uuid5(name) == [k |-> "uuid5", name |-> name]
Bool(b) == [k |-> "bool", v |-> b]

DefaultTitle == <<"E", "n", "t", "r">>
RUNNING == <<"r", "u", "n", "n", "i", "n", "g">>
CYCLING == <<"c", "y", "c", "l", "i", "n", "g">>
SportOther == <<"o", "t", "h", "e", "r">>
DefaultName == <<"C", "o", "m", "p">>

\* str(x.get("user_id") or "").strip().lower()
owner_of(entry) == str_lower(str_strip(str_or(entry.user_id, <<>>)))

\* A test that ignores ownership
may_touch_any(entry, user_id) == TRUE

\* The ownership test of remove_training, remove_competition and
\* training_feedback: the entry is unowned or owned by the logged-in user
may_touch(entry, user_id) == owner_of(entry) = <<>> \/ owner_of(entry) = user_id

NotDict == [shape |-> "notdict"]
LegacyActivity == [shape |-> "legacy"]

RawTraining(id, training_id, title, name, user_id, done, feeling, post_notes, date, sport) ==
    [shape |-> "dict", id |-> id, training_id |-> training_id, title |-> title,
     name |-> name, user_id |-> user_id, done |-> done, feeling |-> feeling,
     post_notes |-> post_notes, date |-> date, sport |-> sport]

RawCompetition(id, name, user_id) ==
    [shape |-> "dict", id |-> id, name |-> name, user_id |-> user_id]

\* _load_planned_trainings over the raw list, handing out uuid4 ids from n
RECURSIVE load_trainings_from(_, _)
load_trainings_from(items, n) ==
    IF items = <<>> THEN [out |-> <<>>, changed |-> FALSE, uuid_next |-> n]
    ELSE LET t == Head(items)
         IN IF t.shape # "dict"
            THEN [load_trainings_from(Tail(items), n) EXCEPT !.changed = TRUE]
            ELSE LET tid0 == IF t.id # None THEN t.id ELSE t.training_id
                     fresh == tid0 = None
                     n1 == IF fresh THEN n + 1 ELSE n
                     rest == load_trainings_from(Tail(items), n1)
                     entry == RawTraining(
                                IF fresh THEN Uuid4(n1) ELSE tid0, None,
                                str_or(t.title, str_or(t.name, DefaultTitle)), <<>>,
                                owner_of(t), Bool(t.done = Bool(TRUE)),
                                t.feeling, t.post_notes,
                                t.date, str_or(t.sport, SportOther))
                 IN [out |-> <<entry>> \o rest.out,
                     changed |-> rest.changed \/ fresh \/ t.name # <<>>
                                    \/ t.training_id # None,
                     uuid_next |-> rest.uuid_next]

\* the file after _load_planned_trainings: rewritten only if changed
load_planned_trainings(file, n) ==
    LET r == load_trainings_from(file, n)
    IN [out |-> r.out, uuid_next |-> r.uuid_next,
        file |-> IF r.changed THEN r.out ELSE file]

\* _load_competitions: an entry without id gets a uuid5 of its fields
RECURSIVE load_competitions_from(_)
load_competitions_from(items) ==
    IF items = <<>> THEN [out |-> <<>>, changed |-> FALSE]
    ELSE LET c == Head(items)
             rest == load_competitions_from(Tail(items))
         IN IF c.shape # "dict"
            THEN [rest EXCEPT !.changed = TRUE]
            ELSE LET entry == RawCompetition(
                                IF c.id # None THEN c.id ELSE Uuid5(c.name),
                                str_or(c.name, DefaultName), owner_of(c))
                 IN [out |-> <<entry>> \o rest.out,
                     changed |-> rest.changed \/ c.id = None]

load_competitions(file) ==
    LET r == load_competitions_from(file)
    IN [out |-> r.out, file |-> IF r.changed THEN r.out ELSE file]

Request(op, user_id, id) == [op |-> op, user_id |-> user_id, id |-> id]

\* What every handler leaves alone in this part of the model
PlanFrame == UNCHANGED <<pureVars, taskVars, inflight, otherVars>>

\* remove_training: load, drop the entries with the id that the user may
\* touch, save
remove_training(user_id, training_id) ==
    /\ served < MaxRequests
    /\ LET l == load_planned_trainings(trainings_file, uuid_next)
       IN /\ trainings_file' =
                SelectSeq(l.out, LAMBDA t :
                    ~(t.id = training_id /\ may_touch(t, user_id)))
          /\ uuid_next' = l.uuid_next
    /\ last_request' = Request("remove_training", user_id, training_id)
    /\ served' = served + 1
    /\ UNCHANGED competitions_file
    /\ PlanFrame

\* remove_competition: the same over competitions.json
remove_competition(user_id, competition_id) ==
    /\ served < MaxRequests
    /\ LET l == load_competitions(competitions_file)
       IN competitions_file' =
             SelectSeq(l.out, LAMBDA c :
                 ~(c.id = competition_id /\ may_touch(c, user_id)))
    /\ last_request' = Request("remove_competition", user_id, competition_id)
    /\ served' = served + 1
    /\ UNCHANGED <<trainings_file, uuid_next>>
    /\ PlanFrame

\* (request.form.get("done") or "").strip().lower() in {"1","true","on","yes"}
form_done(raw) ==
    str_lower(str_strip(str_or(raw, <<>>)))
        \in { <<"1">>, <<"t", "r", "u", "e">>, <<"o", "n">>, <<"y", "e", "s">> }

\* training_feedback: the first entry with the id that the user may touch
\* gets the feedback and, if unowned, the user as owner; nothing is saved
\* when there is none
feedback_index(trainings, user_id, training_id) ==
    LET hits == { i \in 1..Len(trainings) :
                    trainings[i].id = training_id /\ may_touch(trainings[i], user_id) }
    IN IF hits = {} THEN 0 ELSE CHOOSE i \in hits : \A j \in hits : i <= j

training_feedback(user_id, training_id, form) ==
    /\ served < MaxRequests
    /\ LET l == load_planned_trainings(trainings_file, uuid_next)
           idx == feedback_index(l.out, user_id, training_id)
       IN /\ uuid_next' = l.uuid_next
          /\ IF idx = 0
             THEN trainings_file' = l.file
             ELSE LET updated ==
                        [l.out[idx] EXCEPT
                            !.user_id = IF owner_of(l.out[idx]) = <<>>
                                        THEN user_id ELSE @,
                            !.done = Bool(form_done(form.done)),
                            !.feeling = str_strip(str_or(form.feeling, <<>>)),
                            !.post_notes = str_strip(str_or(form.post_notes, <<>>))]
                  IN trainings_file' = [l.out EXCEPT ![idx] = updated]
    /\ last_request' = Request("training_feedback", user_id, training_id)
    /\ served' = served + 1
    /\ UNCHANGED competitions_file
    /\ PlanFrame

\* add_training: title and date are mandatory; the new entry gets a uuid4 id
\* and the logged-in user as owner and is appended to the loaded list
add_training(user_id, form) ==
    /\ served < MaxRequests
    /\ LET title == str_strip(str_or(str_or(form.title, form.name), <<>>))
           date == str_strip(str_or(form.date, <<>>))
       IN IF title = <<>> \/ date = <<>>
          THEN /\ UNCHANGED <<trainings_file, uuid_next>>
               /\ last_request' = Request("add_training", user_id, None)
          ELSE LET id == Uuid4(uuid_next + 1)
                   sport == str_or(str_strip(str_or(form.sport, SportOther)), SportOther)
                   training == RawTraining(id, None, title, <<>>, user_id,
                                           None, <<>>, <<>>, date, sport)
                   l == load_planned_trainings(trainings_file, uuid_next + 1)
               IN /\ trainings_file' = Append(l.out, training)
                  /\ uuid_next' = l.uuid_next
                  /\ last_request' = Request("add_training", user_id, id)
    /\ served' = served + 1
    /\ UNCHANGED competitions_file
    /\ PlanFrame

\* add_competition: name and date are mandatory (not stripped)
add_competition(user_id, form) ==
    /\ served < MaxRequests
    /\ IF form.name = <<>> \/ form.date = <<>>
       THEN /\ UNCHANGED <<competitions_file, uuid_next>>
            /\ last_request' = Request("add_competition", user_id, None)
       ELSE LET id == Uuid4(uuid_next + 1)
                competition == RawCompetition(id, form.name, user_id)
                l == load_competitions(competitions_file)
            IN /\ competitions_file' = Append(l.out, competition)
               /\ uuid_next' = uuid_next + 1
               /\ last_request' = Request("add_competition", user_id, id)
    /\ served' = served + 1
    /\ UNCHANGED trainings_file
    /\ PlanFrame

RUN == <<"r", "u", "n">>
RACE == <<"r", "a", "c", "e">>
SomeDate == <<"2", "0", "2", "4">>

\* Entries a trainings.json can hold: written by this version, written with
\* the user id as typed, unowned, with the old keys, without id, and the two
\* kinds the loader drops
RawTrainings ==
    { RawTraining(StrId("a"), None, RUN, <<>>, BOB, Bool(TRUE), <<"o", "k">>, <<>>,
                  SomeDate, RUNNING),
      RawTraining(None, StrId("a"), <<>>, RUN, ALICE, None, <<>>, <<>>,
                  SomeDate, RUNNING),
      RawTraining(StrId("b"), None, RUN, <<>>, <<" ", "B", "o", "b">>, None, <<>>, <<>>,
                  SomeDate, <<>>),
      RawTraining(StrId("b"), None, <<>>, <<>>, <<>>, None, <<>>, <<>>,
                  <<>>, <<>>),
      RawTraining(None, None, RUN, <<>>, BOB, None, <<>>, <<>>,
                  SomeDate, CYCLING),
      NotDict,
      LegacyActivity }

RawCompetitions ==
    { RawCompetition(StrId("a"), RACE, BOB),
      RawCompetition(StrId("a"), RACE, <<"A", "l", "i", "c", "e", " ">>),
      RawCompetition(None, <<>>, <<>>),
      NotDict }

FilesOver(entries) ==
    UNION { [1..n -> entries] : n \in 0..MaxEntries }

FeedbackForms ==
    { [done |-> <<" ", "O", "n">>, feeling |-> <<" ", "o", "k">>, post_notes |-> <<>>],
      [done |-> <<>>, feeling |-> <<>>, post_notes |-> <<"x">>] }

AddTrainingForms ==
    { [title |-> RUN, name |-> <<>>, date |-> SomeDate, sport |-> RUNNING],
      [title |-> <<>>, name |-> <<" ", "r", "u", "n">>, date |-> SomeDate,
       sport |-> <<" ">>],
      [title |-> <<" ">>, name |-> RUN, date |-> SomeDate, sport |-> <<>>],
      [title |-> RUN, name |-> <<>>, date |-> <<>>, sport |-> RUNNING] }

AddCompetitionForms ==
    { [name |-> RACE, date |-> SomeDate],
      [name |-> <<>>, date |-> SomeDate],
      [name |-> RACE, date |-> <<>>] }

\* Ids a request can name: the two fixed ones and every id in the loaded list
TargetIds(loaded) == { StrId("a"), StrId("b") } \cup { loaded[i].id : i \in 1..Len(loaded) }

\* The two files are independent (no handler reads one and writes the
\* other): a behaviour starts with entries in one of them
InitPlan ==
    /\ PureIdle
    /\ TaskIdle
    /\ \/ trainings_file \in FilesOver(RawTrainings) /\ competitions_file = <<>>
       \/ trainings_file = <<>> /\ competitions_file \in FilesOver(RawCompetitions)
    /\ last_request = None
    /\ uuid_next = 0
    /\ served = 0
    /\ inflight = <<>>
    /\ OtherIdle

NextPlan ==
    \/ \E user_id \in PlanUsers :
         \E id \in TargetIds(load_trainings_from(trainings_file, uuid_next).out) :
            remove_training(user_id, id)
    \/ \E user_id \in PlanUsers :
         \E id \in TargetIds(load_competitions_from(competitions_file).out) :
            remove_competition(user_id, id)
    \/ \E user_id \in PlanUsers, form \in FeedbackForms :
         \E id \in TargetIds(load_trainings_from(trainings_file, uuid_next).out) :
            training_feedback(user_id, id, form)
    \/ \E user_id \in PlanUsers, form \in AddTrainingForms : add_training(user_id, form)
    \/ \E user_id \in PlanUsers, form \in AddCompetitionForms : add_competition(user_id, form)

SpecPlan == InitPlan /\ [][NextPlan]_vars

\* The entries of a list that a request of user_id on id must leave alone:
\* those of another non-empty user and those with another id
ProtectedFrom(user_id, id, entries) ==
    SelectSeq(entries, LAMBDA e :
        (owner_of(e) # <<>> /\ owner_of(e) # user_id) \/ e.id # id)

\* The first entry with the id that is unowned or owned by user_id (0: none)
FirstOwnOrUnowned(user_id, id, entries) ==
    LET hits == { i \in 1..Len(entries) :
                    entries[i].id = id /\ owner_of(entries[i]) \in {<<>>, user_id} }
    IN IF hits = {} THEN 0 ELSE CHOOSE i \in hits : \A j \in hits : i <= j

\* C10: a remove_training, remove_competition or training_feedback request of
\* user U leaves, in their normalised form and in order, every entry owned by
\* another non-empty user and every entry with another id; the other file is
\* not written; an unowned entry that training_feedback updates is owned by
\* U afterwards.
C10_OtherUsersEntriesKept ==
    [][served' # served =>
         LET r == last_request'
             t_before == load_trainings_from(trainings_file, uuid_next).out
             t_after == load_trainings_from(trainings_file', uuid_next).out
             c_before == load_competitions_from(competitions_file).out
             c_after == load_competitions_from(competitions_file').out
             hit == FirstOwnOrUnowned(r.user_id, r.id, t_before)
         IN /\ r.op \in {"remove_training", "training_feedback"} =>
                 /\ ProtectedFrom(r.user_id, r.id, t_after)
                      = ProtectedFrom(r.user_id, r.id, t_before)
                 /\ competitions_file' = competitions_file
            /\ r.op = "remove_competition" =>
                 /\ ProtectedFrom(r.user_id, r.id, c_after)
                      = ProtectedFrom(r.user_id, r.id, c_before)
                 /\ trainings_file' = trainings_file
            /\ (r.op = "training_feedback" /\ hit # 0) =>
                 /\ Len(t_after) = Len(t_before)
                 /\ owner_of(t_after[hit]) = r.user_id
                 /\ t_after[hit].id = r.id
       ]_vars

\* alice sent feedback for id "b": the unowned entry with that id now carries
\* her feedback and her user id, the entry of bob with the same id stands
\* before it as loaded.
C10_Witness ==
    /\ last_request = Request("training_feedback", ALICE, StrId("b"))
    /\ trainings_file =
          << RawTraining(StrId("b"), None, RUN, <<>>, BOB, Bool(FALSE), <<>>, <<>>,
                         SomeDate, SportOther),
             RawTraining(StrId("b"), None, DefaultTitle, <<>>, ALICE, Bool(TRUE),
                         <<"o", "k">>, <<>>, <<>>, SportOther) >>

----------------------------------------------------------------------------
(* Pages that show planned trainings and competitions: webapp.py training, *)
(* api_calendar_events, training_detail, competition_detail, activity and   *)
(* activity_detail.  Each handler loads the shared file (the loader may     *)
(* rewrite it) and leaves in ret the planned entries its response carries.  *)
(* last_request names the page and the logged-in user.  A date is a string  *)
(* here: an entry with an empty date is outside every calendar window, the  *)
(* others are inside the requested one.                                     *)

Page(planned) == [k |-> "page", planned |-> planned]

PageRequest(op, user_id) == [op |-> op, user_id |-> user_id]

\* (not uid) or uid == creds.user_id
belongs_to_user(item, user_id) == owner_of(item) = <<>> \/ owner_of(item) = user_id

\* next((x for x in items if P(x)), None), as a list of at most one entry
first_match(items, P(_)) ==
    LET hits == SelectSeq(items, P)
    IN IF hits = <<>> THEN <<>> ELSE <<Head(hits)>>

PageFrame == UNCHANGED <<args, pc, taskVars, served, inflight, otherVars>>

\* training: the lists of the user's own and of unowned entries
training(user_id) ==
    LET lt == load_planned_trainings(trainings_file, uuid_next)
        lc == load_competitions(competitions_file)
    IN /\ ret' = Page(SelectSeq(lt.out, LAMBDA t : belongs_to_user(t, user_id))
                       \o SelectSeq(lc.out, LAMBDA c : belongs_to_user(c, user_id)))
       /\ trainings_file' = lt.file
       /\ competitions_file' = lc.file
       /\ uuid_next' = lt.uuid_next
       /\ last_request' = PageRequest("training", user_id)
       /\ PageFrame

\* api_calendar_events: the same lists, restricted to the dates of the month
\* (the date of a competition is not part of the model: each one is taken to
\* fall in the month)
api_calendar_events(user_id) ==
    LET lt == load_planned_trainings(trainings_file, uuid_next)
        lc == load_competitions(competitions_file)
    IN /\ ret' = Page(SelectSeq(lt.out, LAMBDA t :
                           belongs_to_user(t, user_id) /\ t.date # <<>>)
                       \o SelectSeq(lc.out, LAMBDA c : belongs_to_user(c, user_id)))
       /\ trainings_file' = lt.file
       /\ competitions_file' = lc.file
       /\ uuid_next' = lt.uuid_next
       /\ last_request' = PageRequest("api_calendar_events", user_id)
       /\ PageFrame

\* training_detail: the first entry with the id that belongs to the user
training_detail(user_id, training_id) ==
    LET lt == load_planned_trainings(trainings_file, uuid_next)
    IN /\ ret' = Page(first_match(lt.out, LAMBDA t :
                           t.id = training_id /\ belongs_to_user(t, user_id)))
       /\ trainings_file' = lt.file
       /\ uuid_next' = lt.uuid_next
       /\ last_request' = PageRequest("training_detail", user_id)
       /\ UNCHANGED competitions_file
       /\ PageFrame

\* competition_detail: the first entry with the id that belongs to the user
competition_detail(user_id, competition_id) ==
    LET lc == load_competitions(competitions_file)
    IN /\ ret' = Page(first_match(lc.out, LAMBDA c :
                           c.id = competition_id /\ belongs_to_user(c, user_id)))
       /\ competitions_file' = lc.file
       /\ last_request' = PageRequest("competition_detail", user_id)
       /\ UNCHANGED <<trainings_file, uuid_next>>
       /\ PageFrame

\* activity: each listed activity of the user carries the first dated entry
\* of the user's own and unowned trainings with its date and sport
activity(user_id, date_only, type_key) ==
    LET lt == load_planned_trainings(trainings_file, uuid_next)
        planned_trainings == SelectSeq(lt.out, LAMBDA t : belongs_to_user(t, user_id))
    IN /\ ret' = Page(first_match(planned_trainings, LAMBDA t :
                           t.date # <<>> /\ t.date = date_only
                           /\ str_or(t.sport, SportOther) = type_key))
       /\ trainings_file' = lt.file
       /\ uuid_next' = lt.uuid_next
       /\ last_request' = PageRequest("activity", user_id)
       /\ UNCHANGED competitions_file
       /\ PageFrame

\* activity_detail: planned is the first training with the date and the
\* sport of the activity
activity_detail(user_id, date_only, type_key) ==
    /\ IF date_only = <<>>
       THEN /\ ret' = Page(<<>>)
            /\ UNCHANGED <<trainings_file, uuid_next>>
       ELSE LET lt == load_planned_trainings(trainings_file, uuid_next)
            IN /\ ret' = Page(first_match(lt.out, LAMBDA t :
                                t.date = date_only /\ t.sport = type_key))
               /\ trainings_file' = lt.file
               /\ uuid_next' = lt.uuid_next
    /\ last_request' = PageRequest("activity_detail", user_id)
    /\ UNCHANGED competitions_file
    /\ PageFrame

\* The activities of the logged-in user: date and sport of one of them
ActivityDates == { SomeDate, <<>> }
ActivitySports == { RUNNING, CYCLING, SportOther }

InitPages ==
    /\ args = NoCall /\ ret = None /\ pc = "idle"
    /\ TaskIdle
    /\ trainings_file \in FilesOver(RawTrainings)
    /\ competitions_file \in FilesOver(RawCompetitions)
    /\ Len(trainings_file) + Len(competitions_file) <= MaxEntries
    /\ last_request = None
    /\ uuid_next = 0
    /\ served = 0
    /\ inflight = <<>>
    /\ OtherIdle

NextPages ==
    \/ \E user_id \in PlanUsers : training(user_id)
    \/ \E user_id \in PlanUsers : api_calendar_events(user_id)
    \/ \E user_id \in PlanUsers :
         \E id \in TargetIds(load_trainings_from(trainings_file, uuid_next).out) :
            training_detail(user_id, id)
    \/ \E user_id \in PlanUsers :
         \E id \in TargetIds(load_competitions_from(competitions_file).out) :
            competition_detail(user_id, id)
    \/ \E user_id \in PlanUsers, d \in ActivityDates, s \in ActivitySports :
         activity(user_id, d, s)
    \/ \E user_id \in PlanUsers, d \in ActivityDates, s \in ActivitySports :
         activity_detail(user_id, d, s)

SpecPages == InitPages /\ [][NextPages]_vars

\* The planned entries of the response are unowned or owned by the user
OwnEntriesOnly ==
    \A i \in 1..Len(ret.planned) :
        owner_of(ret.planned[i]) \in { <<>>, last_request.user_id }

\* C11: no response built for a logged-in user on the training list, the
\* calendar events, the training detail, the competition detail, the activity
\* list or the activity detail page carries a planned training or competition
\* whose owner is a different non-empty user.
C11_OwnPagesShowOwnEntries ==
    ret.k = "page" => OwnEntriesOnly

\* The same statement for the five pages other than the activity detail page
C11_FilteredPagesShowOwnEntries ==
    (ret.k = "page" /\ last_request.op # "activity_detail") => OwnEntriesOnly

\* alice opens the detail page of her running activity: planned is the
\* training of bob with the date and the sport of the activity
C11_ForeignPlannedShown ==
    /\ ret.k = "page"
    /\ last_request = PageRequest("activity_detail", ALICE)
    /\ Len(ret.planned) = 1
    /\ owner_of(ret.planned[1]) = BOB

----------------------------------------------------------------------------
(* Concurrent writers of data/trainings.json: the server runs each request *)
(* on its own thread (wsgi.py, waitress) and webapp.py takes no lock around *)
(* _load_planned_trainings / _save_planned_trainings.  A request thread     *)
(* reads the file, rewrites it when the loader changed something, then      *)
(* saves its modified list; each of read_json and write_json is one step.   *)

MaxInflight == 2

Writer(op, user_id, id, form, new_id, at, overlapped) ==
    [op |-> op, user_id |-> user_id, id |-> id, form |-> form, new_id |-> new_id,
     pc |-> at, trainings |-> <<>>, saved |-> FALSE, overlapped |-> overlapped]

AllDone == \A i \in 1..Len(inflight) : inflight[i].pc = "done"

\* The threads already in flight overlap with one that arrives before they
\* are done
arrive(w) ==
    Append([ i \in 1..Len(inflight) |->
                [inflight[i] EXCEPT !.overlapped = @ \/ inflight[i].pc # "done"] ],
           w)

WriterFrame ==
    UNCHANGED <<pureVars, taskVars, competitions_file, last_request, served, otherVars>>

\* remove_training / training_feedback: the handler starts with the load
ArriveRemoveTraining(user_id, training_id) ==
    /\ Len(inflight) < MaxInflight
    /\ inflight' = arrive(Writer("remove_training", user_id, training_id, None,
                                 None, "read", ~AllDone))
    /\ UNCHANGED <<trainings_file, uuid_next>>
    /\ WriterFrame

ArriveTrainingFeedback(user_id, training_id, form) ==
    /\ Len(inflight) < MaxInflight
    /\ inflight' = arrive(Writer("training_feedback", user_id, training_id, form,
                                 None, "read", ~AllDone))
    /\ UNCHANGED <<trainings_file, uuid_next>>
    /\ WriterFrame

\* add_training: the form is checked and the uuid4 drawn before the load
ArriveAddTraining(user_id, form) ==
    /\ Len(inflight) < MaxInflight
    /\ LET title == str_strip(str_or(str_or(form.title, form.name), <<>>))
           date == str_strip(str_or(form.date, <<>>))
       IN IF title = <<>> \/ date = <<>>
          THEN /\ inflight' = arrive(Writer("add_training", user_id, None, form,
                                            None, "done", ~AllDone))
               /\ UNCHANGED uuid_next
          ELSE /\ inflight' = arrive(Writer("add_training", user_id, None, form,
                                            Uuid4(uuid_next + 1), "read", ~AllDone))
               /\ uuid_next' = uuid_next + 1
    /\ UNCHANGED trainings_file
    /\ WriterFrame

\* _load_planned_trainings, first half: read_json and the normalising loop
WriterRead(i) ==
    /\ inflight[i].pc = "read"
    /\ LET l == load_trainings_from(trainings_file, uuid_next)
       IN /\ inflight' = [inflight EXCEPT
                             ![i].trainings = l.out,
                             ![i].pc = IF l.changed THEN "rewrite" ELSE "body"]
          /\ uuid_next' = l.uuid_next
    /\ UNCHANGED trainings_file
    /\ WriterFrame

\* _load_planned_trainings, second half: if changed: write_json(out)
WriterRewrite(i) ==
    /\ inflight[i].pc = "rewrite"
    /\ trainings_file' = inflight[i].trainings
    /\ inflight' = [inflight EXCEPT ![i].pc = "body"]
    /\ UNCHANGED uuid_next
    /\ WriterFrame

\* The list the handler saves, from the list it loaded (a list of no or one
\* list: training_feedback saves nothing when it finds no entry)
writer_body(w) ==
    CASE w.op = "remove_training" ->
           << SelectSeq(w.trainings, LAMBDA t :
                  ~(t.id = w.id /\ may_touch(t, w.user_id))) >>
      [] w.op = "training_feedback" ->
           LET idx == feedback_index(w.trainings, w.user_id, w.id)
           IN IF idx = 0 THEN <<>>
              ELSE << [w.trainings EXCEPT ![idx] =
                         [@ EXCEPT
                            !.user_id = IF owner_of(w.trainings[idx]) = <<>>
                                        THEN w.user_id ELSE @,
                            !.done = Bool(form_done(w.form.done)),
                            !.feeling = str_strip(str_or(w.form.feeling, <<>>)),
                            !.post_notes = str_strip(str_or(w.form.post_notes, <<>>))]] >>
      [] w.op = "add_training" ->
           << Append(w.trainings,
                     RawTraining(w.new_id, None,
                         str_strip(str_or(str_or(w.form.title, w.form.name), <<>>)),
                         <<>>, w.user_id, None, <<>>, <<>>,
                         str_strip(str_or(w.form.date, <<>>)),
                         str_or(str_strip(str_or(w.form.sport, SportOther)),
                                SportOther))) >>

\* The handler's own change and _save_planned_trainings
WriterSave(i) ==
    /\ inflight[i].pc = "body"
    /\ LET saved == writer_body(inflight[i])
       IN IF saved = <<>>
          THEN /\ inflight' = [inflight EXCEPT ![i].pc = "done"]
               /\ UNCHANGED trainings_file
          ELSE /\ inflight' = [inflight EXCEPT ![i].pc = "done", ![i].saved = TRUE]
               /\ trainings_file' = saved[1]
    /\ UNCHANGED uuid_next
    /\ WriterFrame

WriterEntries ==
    { RawTraining(StrId("a"), None, RUN, <<>>, BOB, Bool(TRUE), <<"o", "k">>, <<>>,
                  SomeDate, RUNNING),
      RawTraining(StrId("b"), None, <<>>, <<>>, <<>>, None, <<>>, <<>>,
                  <<>>, <<>>),
      RawTraining(None, None, RUN, <<>>, BOB, None, <<>>, <<>>,
                  SomeDate, CYCLING) }

WriterIds == { StrId("a"), StrId("b") }

WriterFeedbackForms ==
    { [done |-> <<" ", "O", "n">>, feeling |-> <<" ", "o", "k">>, post_notes |-> <<>>] }

WriterAddForms ==
    { [title |-> RUN, name |-> <<>>, date |-> SomeDate, sport |-> RUNNING],
      [title |-> RUN, name |-> <<>>, date |-> <<>>, sport |-> RUNNING] }

InitWriters ==
    /\ PureIdle
    /\ TaskIdle
    /\ trainings_file \in FilesOver(WriterEntries)
    /\ competitions_file = <<>>
    /\ last_request = None
    /\ uuid_next = 0
    /\ served = 0
    /\ inflight = <<>>
    /\ OtherIdle

NextWriters ==
    \/ \E user_id \in PlanUsers, id \in WriterIds : ArriveRemoveTraining(user_id, id)
    \/ \E user_id \in PlanUsers, id \in WriterIds, form \in WriterFeedbackForms :
         ArriveTrainingFeedback(user_id, id, form)
    \/ \E user_id \in PlanUsers, form \in WriterAddForms : ArriveAddTraining(user_id, form)
    \/ \E i \in 1..Len(inflight) : WriterRead(i)
    \/ \E i \in 1..Len(inflight) : WriterRewrite(i)
    \/ \E i \in 1..Len(inflight) : WriterSave(i)

SpecWriters == InitWriters /\ [][NextWriters]_vars

\* The file shows the request w: the added entry is in it, no entry that a
\* removal had to drop is in it, the first entry a feedback request may touch
\* carries the feedback (unless another request was aimed at the same id)
Reflected(w) ==
    CASE w.op = "add_training" ->
           w.saved => \E j \in 1..Len(trainings_file) : trainings_file[j].id = w.new_id
      [] w.op = "remove_training" ->
           ~ \E j \in 1..Len(trainings_file) :
                /\ trainings_file[j].id = w.id
                /\ may_touch(trainings_file[j], w.user_id)
      [] w.op = "training_feedback" ->
           (/\ w.saved
            /\ \A k \in 1..Len(inflight) : inflight[k] = w \/ inflight[k].id # w.id)
           => LET idx == feedback_index(trainings_file, w.user_id, w.id)
              IN /\ idx # 0
                 /\ owner_of(trainings_file[idx]) = w.user_id
                 /\ trainings_file[idx].done = Bool(form_done(w.form.done))
                 /\ trainings_file[idx].feeling = str_strip(str_or(w.form.feeling, <<>>))

\* C12: the writers of the shared file are serialized: when two add, remove
\* or feedback requests run concurrently, both are reflected in the file once
\* both have completed; no update is lost.
C12_NoLostUpdate ==
    AllDone => \A i \in 1..Len(inflight) : Reflected(inflight[i])

\* Requests that did not overlap in time are all reflected
C12_SerialRequestsReflected ==
    (AllDone /\ \A i \in 1..Len(inflight) : ~inflight[i].overlapped)
        => \A i \in 1..Len(inflight) : Reflected(inflight[i])

\* Two add_training requests overlapped, both saved, and the file holds the
\* entry of one of them only
C12_LostUpdate ==
    /\ Len(inflight) = 2
    /\ AllDone
    /\ \A i \in 1..2 : inflight[i].op = "add_training" /\ inflight[i].saved
    /\ \E i \in 1..2 : ~ \E j \in 1..Len(trainings_file) :
                            trainings_file[j].id = inflight[i].new_id

----------------------------------------------------------------------------
(* storage.py write_json and read_json on one target path, here             *)
(* data/trainings.json.  A document is the list of the text chunks that     *)
(* json.dump writes one after the other; the temporary file of a call has   *)
(* a name of its own (mkstemp) and is a local of the calling thread.        *)

Doc0 == <<"[", "]">>
DocA == <<"[", "a", "]">>
DocB == <<"[", "b", "]">>
WrittenDocs == { DocA, DocB }
CompleteDocs == { Doc0 } \cup WrittenDocs

NoFile == [exists |-> FALSE, text |-> <<>>]
File(text) == [exists |-> TRUE, text |-> text]

StorageCall(fn, data) ==
    [fn |-> fn, data |-> data, pc |-> "call", tmp |-> NoFile,
     replaced |-> FALSE, result |-> <<>>]

StorageFrame ==
    UNCHANGED <<pureVars, taskVars, competitions_file, last_request, uuid_next, served,
                otherVars>>

CallWriteJson(data) ==
    /\ Len(inflight) < MaxInflight
    /\ inflight' = Append(inflight, [StorageCall("write_json", data) EXCEPT !.pc = "mkstemp"])
    /\ UNCHANGED trainings_file
    /\ StorageFrame

CallReadJson ==
    /\ Len(inflight) < MaxInflight
    /\ inflight' = Append(inflight, [StorageCall("read_json", <<>>) EXCEPT !.pc = "open"])
    /\ UNCHANGED trainings_file
    /\ StorageFrame

\* read_json: open the path and json.load what the opened file holds; a text
\* that does not parse gives the default
parses(text) == text \in CompleteDocs
ReadJson(i) ==
    /\ inflight[i].pc = "open"
    /\ inflight' = [inflight EXCEPT
                       ![i].result = IF parses(trainings_file) THEN trainings_file
                                     ELSE <<"default">>,
                       ![i].pc = "returned"]
    /\ UNCHANGED trainings_file
    /\ StorageFrame

\* tempfile.mkstemp: an empty file with a fresh name, or an OSError before
\* the try block
Mkstemp(i) ==
    /\ inflight[i].pc = "mkstemp"
    /\ \/ inflight' = [inflight EXCEPT ![i].tmp = File(<<>>), ![i].pc = "dump"]
       \/ inflight' = [inflight EXCEPT ![i].pc = "raised"]
    /\ UNCHANGED trainings_file
    /\ StorageFrame

\* json.dump: the next chunk goes to the temporary file; the with block
\* closes it after the last one
DumpChunk(i) ==
    /\ inflight[i].pc = "dump"
    /\ LET w == inflight[i]
           text == Append(w.tmp.text, w.data[Len(w.tmp.text) + 1])
       IN inflight' = [inflight EXCEPT
                          ![i].tmp = File(text),
                          ![i].pc = IF Len(text) = Len(w.data) THEN "replace" ELSE "dump"]
    /\ UNCHANGED trainings_file
    /\ StorageFrame

\* json.dump or the write raises (a value that is not serialisable, a full
\* disk): control goes to the finally block
DumpRaises(i) ==
    /\ inflight[i].pc = "dump"
    /\ inflight' = [inflight EXCEPT ![i].pc = "finally_raise"]
    /\ UNCHANGED trainings_file
    /\ StorageFrame

\* os.replace(tmp_path, path): the path names the temporary file's content
\* and the temporary name is gone, in one step
Replace(i) ==
    /\ inflight[i].pc = "replace"
    /\ trainings_file' = inflight[i].tmp.text
    /\ inflight' = [inflight EXCEPT
                       ![i].tmp = NoFile, ![i].replaced = TRUE, ![i].pc = "finally"]
    /\ StorageFrame

\* os.replace raises (the target is held open on Windows, permissions)
ReplaceRaises(i) ==
    /\ inflight[i].pc = "replace"
    /\ inflight' = [inflight EXCEPT ![i].pc = "finally_raise"]
    /\ UNCHANGED trainings_file
    /\ StorageFrame

\* finally: if os.path.exists(tmp_path): os.remove(tmp_path)
finally_keep(tmp) == tmp
finally_remove(tmp) == NoFile

Finally(i) ==
    /\ inflight[i].pc \in { "finally", "finally_raise" }
    /\ inflight' = [inflight EXCEPT
                       ![i].tmp = finally_remove(@),
                       ![i].pc = IF inflight[i].pc = "finally" THEN "returned"
                                 ELSE "raised"]
    /\ UNCHANGED trainings_file
    /\ StorageFrame

InitStorage ==
    /\ PureIdle
    /\ TaskIdle
    /\ trainings_file = Doc0
    /\ competitions_file = <<>>
    /\ last_request = None
    /\ uuid_next = 0
    /\ served = 0
    /\ inflight = <<>>
    /\ OtherIdle

NextStorage ==
    \/ \E data \in WrittenDocs : CallWriteJson(data)
    \/ CallReadJson
    \/ \E i \in 1..Len(inflight) : ReadJson(i)
    \/ \E i \in 1..Len(inflight) : Mkstemp(i)
    \/ \E i \in 1..Len(inflight) : DumpChunk(i)
    \/ \E i \in 1..Len(inflight) : DumpRaises(i)
    \/ \E i \in 1..Len(inflight) : Replace(i)
    \/ \E i \in 1..Len(inflight) : ReplaceRaises(i)
    \/ \E i \in 1..Len(inflight) : Finally(i)

SpecStorage == InitStorage /\ [][NextStorage]_vars

----------------------------------------------------------------------------
(* garmin_sync.py sync_activities and _merge_activities.  An activity       *)
(* summary is a dict with its activityId, its start time (None when it      *)
(* does not parse) and rev, which stands for the rest of its content.  The  *)
(* vendor holds a list of summaries, newest first; get_activities(start,    *)
(* limit) returns a slice of it.  The detail and health parts of a sync do  *)
(* not touch the activities file and lines 42-113 do not read the details   *)
(* file: SpecSync leaves the details file out, SpecDetails follows the      *)
(* handler through both files.                                              *)

PageSize == 1
MaxPages == 2
MaxVendor == 2
OverlapStop == 25

Summary(activityId, dt, rev) ==
    [shape |-> "dict", activityId |-> activityId, dt |-> dt, rev |-> rev]

\* isinstance(aid, int) and aid in existing_ids
known_id_never(aid, existing_ids) == FALSE
known_id(aid, existing_ids) == IsNum(aid) /\ aid.v \in existing_ids

\* the variant also drops a start time equal to the cutoff
before_cutoff_inclusive(a, cutoff) == IsNum(a.dt) /\ a.dt.v <= cutoff

\* dt and dt < cutoff
before_cutoff(a, cutoff) == IsNum(a.dt) /\ a.dt.v < cutoff

dicts_of(items) == SelectSeq(items, LAMBDA a : a.shape = "dict")

\* client.get_activities(start, limit)
get_activities(vendor, start, limit) ==
    SubSeq(vendor, start + 1, Min2(start + limit, Len(vendor)))

\* The inner loop over one batch: a known id counts as an overlap hit, any
\* other summary is appended to new_activities
RECURSIVE scan_batch(_, _, _)
scan_batch(batch, existing_ids, st) ==
    IF batch = <<>> THEN st
    ELSE LET a == Head(batch)
         IN scan_batch(Tail(batch), existing_ids,
                IF known_id(a.activityId, existing_ids)
                THEN [st EXCEPT !.overlap_hits = @ + 1]
                ELSE [st EXCEPT !.new_activities = Append(@, a)])

\* for page in range(max_activity_pages): ... with its four ways out
RECURSIVE fetch_pages(_, _, _, _, _, _)
fetch_pages(vendor, existing_ids, backfill, cutoff, page, st) ==
    IF page >= MaxPages THEN st
    ELSE LET batch == dicts_of(get_activities(vendor, page * PageSize, PageSize))
             fetched == [st EXCEPT !.pages = page + 1]
         IN IF batch = <<>> THEN fetched
            ELSE LET st1 == scan_batch(batch, existing_ids, fetched)
                     last == batch[Len(batch)]
                 IN IF /\ ~backfill /\ page = 0 /\ existing_ids # {}
                       /\ st1.new_activities = <<>>
                       /\ st1.overlap_hits >= (8 * Len(batch)) \div 10
                    THEN st1
                    ELSE IF before_cutoff(last, cutoff) THEN st1
                    ELSE IF ~backfill /\ st1.overlap_hits >= OverlapStop THEN st1
                    ELSE fetch_pages(vendor, existing_ids, backfill, cutoff,
                                     page + 1, st1)

\* consider(a) of _merge_activities, over a list
RECURSIVE consider_all(_, _, _)
consider_all(items, cutoff, ordered) ==
    IF items = <<>> THEN ordered
    ELSE LET a == Head(items)
             skip == \/ a.shape # "dict"
                     \/ before_cutoff(a, cutoff)
                     \/ ~IsNum(a.activityId)
                     \/ \E i \in 1..Len(ordered) : ordered[i].activityId = a.activityId
         IN consider_all(Tail(items), cutoff,
                         IF skip THEN ordered ELSE Append(ordered, a))

\* key=lambda x: _parse_activity_datetime(x) or datetime.min
dt_key(a) == IF IsNum(a.dt) THEN a.dt.v ELSE -1

\* ordered.sort(key=..., reverse=True): stable, newest first
RECURSIVE insert_newest_first(_, _)
insert_newest_first(sorted, a) ==
    IF sorted = <<>> THEN <<a>>
    ELSE IF dt_key(Head(sorted)) >= dt_key(a)
         THEN <<Head(sorted)>> \o insert_newest_first(Tail(sorted), a)
         ELSE <<a>> \o sorted

\* the variant leaves the list in the order consider met the items
sort_by_dt_skipped(items) == items

RECURSIVE sort_by_dt(_)
sort_by_dt(items) ==
    IF items = <<>> THEN <<>>
    ELSE insert_newest_first(sort_by_dt(SubSeq(items, 1, Len(items) - 1)),
                             items[Len(items)])

merge_activities(new_items, existing_items, cutoff) ==
    sort_by_dt(consider_all(existing_items, cutoff,
                            consider_all(new_items, cutoff, <<>>)))

\* the variant never asks for a backfill
need_backfill_off(known, cutoff) == FALSE

\* need_backfill = existing_min_dt is None or existing_min_dt > cutoff
need_backfill(known, cutoff) ==
    LET dated == { i \in 1..Len(known) : IsNum(known[i].dt) }
    IN dated = {} \/ \A i \in dated : known[i].dt.v > cutoff

\* sync_activities, up to the end of the paging loop: new_activities,
\* overlap_hits and the number of pages asked for
sync_new_activities(existing, vendor, cutoff) ==
    LET known == dicts_of(existing)
        existing_ids == { known[i].activityId.v :
                             i \in { j \in 1..Len(known) : IsNum(known[j].activityId) } }
    IN fetch_pages(vendor, existing_ids, need_backfill(known, cutoff), cutoff, 0,
                   [new_activities |-> <<>>, overlap_hits |-> 0, pages |-> 0])

sync_activities(vendor, cutoff) ==
    /\ \E paged \in { sync_new_activities(activities_file, vendor, cutoff) } :
         /\ activities_file' =
                merge_activities(paged.new_activities, activities_file, cutoff)
         /\ sync' = [vendor |-> vendor, cutoff |-> cutoff,
                     new_activities |-> paged.new_activities,
                     pages |-> paged.pages]
    /\ UNCHANGED <<pureVars, taskVars, trainings_file, competitions_file,
                   last_request, uuid_next, served, inflight, credVars,
                   details_file>>

A1 == Summary(Num(1), Num(2), 1)
A2 == Summary(Num(1), Num(3), 2)
B1 == Summary(Num(2), None, 1)
D1 == Summary(Num(3), Num(4), 1)
VendorSummaries == { A1, A2, B1, D1, Summary(Junk, Num(2), 1), NotDict }
\* the lists the vendor returns: each record at most once
VendorLists ==
    UNION { { v \in [1..n -> VendorSummaries] :
                \A i, j \in 1..n : i # j => v[i] # v[j] } : n \in 0..MaxVendor }
SyncCutoffs == { 2, 3 }

InitSync ==
    /\ PureIdle
    /\ TaskIdle
    /\ PlanIdle

NextSync ==
    \E vendor \in VendorLists, cutoff \in SyncCutoffs : sync_activities(vendor, cutoff)

SpecSync == InitSync /\ [][NextSync]_vars

\* C14: across any sequence of sync_activities runs a stored summary is never
\* changed: an activityId that is in the activities file before and after a
\* run has the same record after it, whatever record the vendor returned for
\* that id.
C14_StoredSummaryKept ==
    [][ \A i \in 1..Len(activities_file) : \A j \in 1..Len(activities_file') :
            activities_file'[j].activityId = activities_file[i].activityId
                => activities_file'[j] = activities_file[i] ]_vars

\* The last run was given another record for activity 1 on its second page
\* and a new activity on the first; the file holds the new activity and the
\* record of activity 1 as first written
C14_Witness ==
    /\ sync # None
    /\ sync.vendor = <<B1, A2>>
    /\ sync.new_activities = <<B1>>
    /\ activities_file = <<A1, B1>>

----------------------------------------------------------------------------
(* Zone tables: webapp.py _parse_int, _normalize_zones,                     *)
(* _default_zones_from_fcmax and the POST branch of profile.  A form field  *)
(* is None (blank or missing), Junk (a text that is no number) or a whole   *)
(* number; vma is saved as parsed and is left out.  The POST handler does   *)
(* not read the stored profile: stored is what the repository holds before  *)
(* the request, ret what it holds after it.                                 *)

MaxFormBpm == 4
MaxFcmax == 12

\* _parse_int: None for a blank and for a text float() rejects
parse_int(raw) == IF IsNum(raw) THEN raw ELSE None

ZoneTable(z1, z2, z3, z4, z5) ==
    [k |-> "zones", z1_max |-> z1, z2_max |-> z2, z3_max |-> z3, z4_max |-> z4,
     z5_max |-> z5]

\* 0 < z1 < z2 < z3 < z4 < fcmax
zones_ordered_loose(z1, z2, z3, z4, fcmax) ==
    0 <= z1 /\ z1 <= z2 /\ z2 <= z3 /\ z3 <= z4 /\ z4 <= fcmax
zones_ordered(z1, z2, z3, z4, fcmax) ==
    0 < z1 /\ z1 < z2 /\ z2 < z3 /\ z3 < z4 /\ z4 < fcmax

normalize_zones(fcmax, z1, z2, z3, z4) ==
    IF IsNone(fcmax) \/ fcmax.v <= 0 THEN None
    ELSE IF \E t \in {z1, z2, z3, z4} : IsNone(t) THEN None
    ELSE IF ~zones_ordered(z1.v, z2.v, z3.v, z4.v, fcmax.v) THEN None
    ELSE ZoneTable(z1.v, z2.v, z3.v, z4.v, fcmax.v)

\* int(round(n / 10)): Python rounds a tie to the even neighbour (the float
\* product fcmax * 0.7 is the exact tie for every fcmax below 45)
round_tenths(n) ==
    LET q == n \div 10
        r == n % 10
    IN q + (IF r > 5 \/ (r = 5 /\ q % 2 = 1) THEN 1 ELSE 0)

default_zones_from_fcmax(fcmax) ==
    IF IsNone(fcmax) \/ fcmax.v <= 0 THEN None
    ELSE LET z1 == round_tenths(fcmax.v * 6)
             z2 == round_tenths(fcmax.v * 7)
             z3 == round_tenths(fcmax.v * 8)
             z4 == round_tenths(fcmax.v * 9)
         IN IF ~zones_ordered(z1, z2, z3, z4, fcmax.v) THEN None
            ELSE ZoneTable(z1, z2, z3, z4, fcmax.v)

Profile(fcmax, zones, updated_at) ==
    [k |-> "profile", fcmax |-> fcmax, zones |-> zones, updated_at |-> updated_at]

\* profile, request.method == "POST": what the repository holds afterwards
profile_post(stored, form, utcnow) ==
    LET fcmax == parse_int(form.fcmax)
        z1 == parse_int(form.z1_max)
        z2 == parse_int(form.z2_max)
        z3 == parse_int(form.z3_max)
        z4 == parse_int(form.z4_max)
        zones == normalize_zones(fcmax, z1, z2, z3, z4)
    IN IF ~IsNone(fcmax) /\ fcmax.v <= 0 THEN stored
       ELSE IF (\E v \in {z1, z2, z3, z4} : ~IsNone(v)) /\ IsNone(zones) THEN stored
       ELSE Profile(fcmax, zones, utcnow)

CallProfilePost ==
    /\ pc = "call"
    /\ args.fn = "profile"
    /\ \E out \in { profile_post(args.stored, args.form, 1) } : ret' = out
    /\ pc' = "done"
    /\ UNCHANGED <<args, taskVars, planVars>>

CallDefaultZones ==
    /\ pc = "call"
    /\ args.fn = "_default_zones_from_fcmax"
    /\ \E out \in { default_zones_from_fcmax(args.fcmax) } : ret' = out
    /\ pc' = "done"
    /\ UNCHANGED <<args, taskVars, planVars>>

FormValues == { None, Junk } \cup { Num(v) : v \in 0..MaxFormBpm }
FormFcmax == FormValues \cup { Num(-1), Num(MaxFormBpm + 1) }
ProfileForms ==
    { [fcmax |-> f, z1_max |-> z1, z2_max |-> z2, z3_max |-> z3, z4_max |-> z4] :
        f \in FormFcmax, z1 \in FormValues, z2 \in FormValues,
        z3 \in FormValues, z4 \in FormValues }
StoredProfiles == { None, Profile(Num(9), ZoneTable(5, 6, 7, 8, 9), 0) }

InitProfile ==
    /\ \/ args \in { [fn |-> "profile", stored |-> p, form |-> f] :
                        p \in StoredProfiles, f \in ProfileForms }
       \/ args \in { [fn |-> "_default_zones_from_fcmax", fcmax |-> f] :
                        f \in { None } \cup { Num(v) : v \in (-1)..MaxFcmax } }
    /\ ret = None
    /\ pc = "call"
    /\ TaskIdle
    /\ PlanIdle

NextProfile == CallProfilePost \/ CallDefaultZones

SpecProfile == InitProfile /\ [][NextProfile]_vars

TableOrdered(t) ==
    /\ 0 < t.z1_max /\ t.z1_max < t.z2_max /\ t.z2_max < t.z3_max
    /\ t.z3_max < t.z4_max /\ t.z4_max < t.z5_max

\* Some threshold of the form is a number and the numbers of the form are
\* not z1 .. z4 and fcmax with 0 < z1 < z2 < z3 < z4 < fcmax
InvalidThresholds(form) ==
    /\ \E v \in {form.z1_max, form.z2_max, form.z3_max, form.z4_max} : IsNum(v)
    /\ ~ /\ \A v \in {form.fcmax, form.z1_max, form.z2_max, form.z3_max, form.z4_max} :
              IsNum(v)
         /\ 0 < form.z1_max.v /\ form.z1_max.v < form.z2_max.v
         /\ form.z2_max.v < form.z3_max.v /\ form.z3_max.v < form.z4_max.v
         /\ form.z4_max.v < form.fcmax.v

----------------------------------------------------------------------------
(* Credentials: creds_store.py InMemoryCredentialsStore, webapp.py login,   *)
(* register, logout, update_activity, api_sync_activities and               *)
(* build_garmin_handler, with one browser.  A password is Blank (the empty  *)
(* string) or Secret(n), the text typed into the form of the n-th sync.  A  *)
(* sync task is a thread of inflight whose locals are the closure of run:   *)
(* the typed password and, once built, the handler made from it.            *)

MaxSessions == 2
MaxSyncs == 2

Blank == [k |-> "blank"]
Secret(n) == [k |-> "secret", n |-> n]
Token(n) == [k |-> "token", n |-> n]

User(user_id, email, pin) == [user_id |-> user_id, email |-> email, pin |-> pin]
GarminCredentials(user_id, email, password) ==
    [k |-> "creds", user_id |-> user_id, email |-> email, password |-> password]

\* GarminClientHandler(email, password, user_id): self.password = password
GarminClientHandler(email, password) ==
    [k |-> "handler", email |-> email, password |-> password]

AliceUser == User("alice", "a@x", "1234")
BobUser == User("bob", "b@x", "5678")
Accounts == { AliceUser, BobUser }

\* GarminCredentials(user_id=u.user_id, email=u.email, password="")
session_creds_with_pin(u) == GarminCredentials(u.user_id, u.email, [k |-> "pin", pin |-> u.pin])
session_creds(u) == GarminCredentials(u.user_id, u.email, Blank)

\* creds_store.create_session: a fresh token for the credentials
create_session(creds) == Append(creds_items, [creds |-> creds, live |-> TRUE])

\* creds_store.get(session.get(_SESSION_KEY))
current_creds ==
    IF IsNone(session) THEN None
    ELSE IF ~creds_items[session.n].live THEN None
    ELSE creds_items[session.n].creds

CredFrame ==
    UNCHANGED <<pureVars, taskVars, trainings_file, competitions_file, last_request,
                uuid_next, served, activities_file, details_file, sync>>

\* register: a new email and a new user id give a user and a session
register(u) ==
    /\ Len(creds_items) < MaxSessions
    /\ IF \E x \in db_users : x.email = u.email \/ x.user_id = u.user_id
       THEN UNCHANGED <<db_users, creds_items, session>>
       ELSE /\ db_users' = db_users \cup {u}
            /\ creds_items' = create_session(session_creds(u))
            /\ session' = Token(Len(creds_items) + 1)
    /\ UNCHANGED <<inflight, garmin_cache>>
    /\ CredFrame

\* login: email and PIN of a user give a session
login(email, pin) ==
    /\ Len(creds_items) < MaxSessions
    /\ IF \E u \in db_users : u.email = email /\ u.pin = pin
       THEN LET u == CHOOSE x \in db_users : x.email = email
            IN /\ creds_items' = create_session(session_creds(u))
               /\ session' = Token(Len(creds_items) + 1)
       ELSE UNCHANGED <<creds_items, session>>
    /\ UNCHANGED <<db_users, inflight, garmin_cache>>
    /\ CredFrame

\* logout: session.pop(_SESSION_KEY), creds_store.delete(token)
logout ==
    /\ session' = None
    /\ creds_items' = IF IsNone(session) THEN creds_items
                      ELSE [creds_items EXCEPT ![session.n].live = FALSE]
    /\ UNCHANGED <<db_users, inflight, garmin_cache>>
    /\ CredFrame

\* creds_store.get / cleanup drop an entry older than the ttl
Expire(n) ==
    /\ creds_items[n].live
    /\ creds_items' = [creds_items EXCEPT ![n].live = FALSE]
    /\ UNCHANGED <<db_users, session, inflight, garmin_cache>>
    /\ CredFrame

SyncTask(creds, garmin_password, at) ==
    [creds |-> creds, garmin_password |-> garmin_password, handler |-> None, pc |-> at]

\* update_activity: the typed password goes into the closure of run, which
\* tasks.start runs on a thread; a blank one starts nothing
update_activity(garmin_password) ==
    /\ Len(inflight) < MaxSyncs
    /\ ~IsNone(current_creds)
    /\ IF garmin_password = Blank
       THEN UNCHANGED inflight
       ELSE inflight' = Append(inflight, SyncTask(current_creds, garmin_password, "login"))
    /\ UNCHANGED <<db_users, creds_items, session, garmin_cache>>
    /\ CredFrame

\* api_sync_activities: run builds its handler from the session's credentials
api_sync_activities ==
    /\ Len(inflight) < MaxSyncs
    /\ ~IsNone(current_creds)
    /\ inflight' = Append(inflight, SyncTask(current_creds, None, "build"))
    /\ UNCHANGED <<db_users, creds_items, session, garmin_cache>>
    /\ CredFrame

\* run of update_activity: GarminClientHandler(creds.email, garmin_password,
\* creds.user_id), a local of the thread
RunLogin(i) ==
    /\ inflight[i].pc = "login"
    /\ inflight' = [inflight EXCEPT
                       ![i].handler = GarminClientHandler(inflight[i].creds.email,
                                                          inflight[i].garmin_password),
                       ![i].pc = "sync"]
    /\ UNCHANGED <<db_users, creds_items, session, garmin_cache>>
    /\ CredFrame

\* build_garmin_handler: a cached handler of the user, or a new one from
\* creds.password that is cached when its login succeeds
RunBuild(i) ==
    /\ inflight[i].pc = "build"
    /\ LET creds == inflight[i].creds
           hit == { h \in garmin_cache : h.user_id = creds.user_id }
           handler == GarminClientHandler(creds.email, creds.password)
       IN \/ /\ hit # {}
             /\ inflight' = [inflight EXCEPT
                                ![i].handler = (CHOOSE h \in hit : TRUE).handler,
                                ![i].pc = "sync"]
             /\ UNCHANGED garmin_cache
          \/ /\ hit = {}
             /\ inflight' = [inflight EXCEPT ![i].handler = handler, ![i].pc = "sync"]
             /\ garmin_cache' = garmin_cache
                                  \cup { [user_id |-> creds.user_id, handler |-> handler] }
          \/ /\ hit = {}
             /\ inflight' = [inflight EXCEPT ![i].pc = "ended"]
             /\ UNCHANGED garmin_cache
    /\ UNCHANGED <<db_users, creds_items, session>>
    /\ CredFrame

\* run returns or raises: the thread ends and its closure goes with it
RunEnd(i) ==
    /\ inflight[i].pc \in { "login", "sync" }
    /\ inflight' = [inflight EXCEPT
                       ![i].garmin_password = None, ![i].handler = None,
                       ![i].pc = "ended"]
    /\ UNCHANGED <<db_users, creds_items, session, garmin_cache>>
    /\ CredFrame

InitCreds ==
    /\ PureIdle
    /\ TaskIdle
    /\ trainings_file = <<>> /\ competitions_file = <<>>
    /\ last_request = None /\ uuid_next = 0
    /\ served = 0
    /\ inflight = <<>>
    /\ activities_file = <<>> /\ details_file = <<>> /\ sync = None
    /\ creds_items = <<>>
    /\ session = None
    /\ garmin_cache = {}
    /\ db_users = { AliceUser }

NextCreds ==
    \/ \E u \in Accounts : register(u)
    \/ \E u \in Accounts, pin \in { "1234", "5678" } : login(u.email, pin)
    \/ logout
    \/ \E n \in 1..Len(creds_items) : Expire(n)
    \/ update_activity(Blank)
    \/ update_activity(Secret(Len(inflight) + 1))
    \/ api_sync_activities
    \/ \E i \in 1..Len(inflight) : RunLogin(i)
    \/ \E i \in 1..Len(inflight) : RunBuild(i)
    \/ \E i \in 1..Len(inflight) : RunEnd(i)

SpecCreds == InitCreds /\ [][NextCreds]_vars

\* C16: the server never keeps a Garmin password: every entry of the
\* credentials store has an empty password, and so has every cached handler;
\* the session holds nothing or a token of the store; the password typed for
\* a sync is held by the thread of that sync only, while it runs.
C16_NoPasswordKept ==
    /\ \A n \in 1..Len(creds_items) : creds_items[n].creds.password = Blank
    /\ \A h \in garmin_cache : h.handler.password = Blank
    /\ IsNone(session) \/ (session.k = "token" /\ session.n \in 1..Len(creds_items))
    /\ \A i \in 1..Len(inflight) :
          LET t == inflight[i]
          IN /\ t.pc = "ended" => IsNone(t.garmin_password) /\ IsNone(t.handler)
             /\ (~IsNone(t.garmin_password) /\ t.garmin_password.k = "secret")
                    => t.garmin_password = Secret(i)
             /\ (~IsNone(t.handler) /\ t.handler.password # Blank)
                    => t.handler.password = Secret(i)

\* Two syncs with typed passwords were started in a session; the first has
\* ended, the second holds its own password in its handler; the user has
\* logged out
C16_Witness ==
    /\ Len(inflight) = 2
    /\ inflight[1].pc = "ended"
    /\ inflight[2].pc = "sync"
    /\ inflight[2].handler = GarminClientHandler("a@x", Secret(2))
    /\ IsNone(session)
    /\ Len(creds_items) >= 1

----------------------------------------------------------------------------
(* Chart series: activity_manager.py and health_manager.py                  *)
(* plot_interactive_graphs.  For each column the builder takes              *)
(* rolling(window, min_periods=1).mean() and .std(), CI = 1.96 * std /      *)
(* sqrt(window), and turns NaN into None.  Values are whole numbers here;   *)
(* a mean is kept as the exact ratio sum / count and a CI as the variance   *)
(* under its square root, so no rounding is involved.                       *)

MaxSeries == 3
ActivityWindow == 7
HealthWindow == 14

Ratio(n, d) == [k |-> "ratio", n |-> n, d |-> d]

\* The observations of the trailing window that ends at position i: nulls
\* are no observations
window_samples(values, i, window) ==
    SelectSeq(SubSeq(values, Max2(1, i - window + 1), i), IsNum)

RECURSIVE SumOf(_), SumSquares(_)
SumOf(samples) == IF samples = <<>> THEN 0 ELSE Head(samples).v + SumOf(Tail(samples))
SumSquares(samples) ==
    IF samples = <<>> THEN 0
    ELSE Head(samples).v * Head(samples).v + SumSquares(Tail(samples))

\* rolling(...).mean() with min_periods=1: NaN without an observation
rolling_mean(samples) ==
    IF Len(samples) < 1 THEN None ELSE Ratio(SumOf(samples), Len(samples))

\* the variance under rolling(...).std(): pandas uses ddof=1, which is NaN
\* for fewer than two observations
rolling_var_population(samples) ==
    IF Len(samples) < 1 THEN None
    ELSE Ratio(Len(samples) * SumSquares(samples) - SumOf(samples) * SumOf(samples),
               Len(samples) * Len(samples))
rolling_var(samples) ==
    IF Len(samples) < 2 THEN None
    ELSE Ratio(Len(samples) * SumSquares(samples) - SumOf(samples) * SumOf(samples),
               Len(samples) * (Len(samples) - 1))

\* 1.96 * (std / np.sqrt(window)), NaN staying NaN
ci_of(var, window) ==
    IF IsNone(var) THEN None ELSE [k |-> "ci", var |-> var, window |-> window]

\* y, y_ma, y_ci of one column
build_series(values, window) ==
    [y |-> values,
     y_ma |-> [i \in 1..Len(values) |-> rolling_mean(window_samples(values, i, window))],
     y_ci |-> [i \in 1..Len(values) |->
                  ci_of(rolling_var(window_samples(values, i, window)), window)]]

CallBuildSeries ==
    /\ pc = "call"
    /\ args.fn = "build_series"
    /\ \E out \in { build_series(args.values, args.window) } : ret' = out
    /\ pc' = "done"
    /\ UNCHANGED <<args, taskVars, planVars>>

SeriesValues == { None, Num(1), Num(3) }
SeriesInputs == UNION { [1..n -> SeriesValues] : n \in 0..MaxSeries }
SeriesWindows == { 1, 2, ActivityWindow, HealthWindow }

InitSeries ==
    /\ args \in { [fn |-> "build_series", values |-> v, window |-> w] :
                     v \in SeriesInputs, w \in SeriesWindows }
    /\ ret = None
    /\ pc = "call"
    /\ TaskIdle
    /\ PlanIdle

NextSeries == CallBuildSeries

SpecSeries == InitSeries /\ [][NextSeries]_vars

\* The moving average at position i is the raw value (a null for a null)
SameAsRaw(i) ==
    IF IsNone(args.values[i]) THEN IsNone(ret.y_ma[i])
    ELSE ~IsNone(ret.y_ma[i]) /\ ret.y_ma[i].n = args.values[i].v * ret.y_ma[i].d

Aligned ==
    /\ ret.y = args.values
    /\ Len(ret.y_ma) = Len(args.values)
    /\ Len(ret.y_ci) = Len(args.values)

OneSample(i) == Len(window_samples(args.values, i, args.window)) = 1

IsZeroCi(c) == ~IsNone(c) /\ c.var.n = 0

----------------------------------------------------------------------------
(* Retention of tasks: task_manager.py cleanup, get, under SpecTask *)

\* TaskManager.get(task_id) returns the status
retrievable(t) == t \in tasks

\* C18: cleanup never removes a running task, and a started task can be
\* retrieved with get from the return of start until at least ttl_seconds
\* after it finished: every started task that is running, or that finished
\* no more than the ttl ago, is in the registry.
C18_KeptWhileRunningAndTtl ==
    \A t \in DOMAIN status :
        (status[t].state = "running"
            \/ now - status[t].finished_at.v <= TtlSeconds) => retrievable(t)

\* The part that holds: a task that finished is kept for the ttl after it
C18_FinishedKeptForTtl ==
    \A t \in DOMAIN status :
        (status[t].state # "running" /\ now - status[t].finished_at.v <= TtlSeconds)
            => retrievable(t)

\* A task that is still running, its target not yet returned, is no longer
\* in the registry
C18_RunningTaskRemoved ==
    \E t \in DOMAIN status :
        /\ status[t].state = "running"
        /\ thread[t] = "target"
        /\ ~retrievable(t)

-----------------------------------------------------------------------------
(* Polling a task: webapp.py task_status against the runner of             *)
(* task_manager.py.  get() returns the live TaskStatus object and the       *)
(* handler reads its fields after the lock is released, so the reader sees  *)
(* every single assignment of the runner: the two blocks that end a task    *)
(* are taken one assignment at a time.  The steps that hold the lock        *)
(* exclude each other.  args is the polled task, ret the JSON object being  *)
(* built, pc the position of the handler.                                   *)

PollUsers == { "alice", "bob" }

\* positions of a runner inside a `with self._lock` block
InLock == { "done_finished_at", "error_text", "error_finished_at" }
LockFree == \A t \in DOMAIN thread : thread[t] \notin InLock

PollFrame == UNCHANGED <<taskVars, planVars>>
RunnerFrame == UNCHANGED <<tasks, now, pureVars, planVars>>

\* runner: with self._lock: s = self._tasks.get(task_id); if s: s.state = "done"
RunnerSetDone(t) ==
    /\ thread[t] = "mark_done"
    /\ LockFree
    /\ IF t \in tasks
       THEN /\ status' = [status EXCEPT ![t].state = "done"]
            /\ thread' = [thread EXCEPT ![t] = "done_finished_at"]
       ELSE /\ thread' = [thread EXCEPT ![t] = "exit"]
            /\ UNCHANGED status
    /\ RunnerFrame

\* runner: s.finished_at = time.time(), end of the block
RunnerSetDoneFinishedAt(t) ==
    /\ thread[t] = "done_finished_at"
    /\ status' = [status EXCEPT ![t].finished_at = Num(now)]
    /\ thread' = [thread EXCEPT ![t] = "exit"]
    /\ RunnerFrame

\* runner, except branch: with self._lock: s = ...; if s: s.state = "error"
RunnerSetError(t) ==
    /\ thread[t] = "except"
    /\ LockFree
    /\ IF t \in tasks
       THEN /\ status' = [status EXCEPT ![t].state = "error"]
            /\ thread' = [thread EXCEPT ![t] = "error_text"]
       ELSE /\ thread' = [thread EXCEPT ![t] = "exit"]
            /\ UNCHANGED status
    /\ RunnerFrame

\* runner, except branch: s.error = str(e)
RunnerSetErrorText(t) ==
    /\ thread[t] = "error_text"
    /\ status' = [status EXCEPT ![t].error = [k |-> "str"]]
    /\ thread' = [thread EXCEPT ![t] = "error_finished_at"]
    /\ RunnerFrame

\* runner, except branch: s.finished_at = time.time(), end of the block
RunnerSetErrorFinishedAt(t) ==
    /\ thread[t] = "error_finished_at"
    /\ status' = [status EXCEPT ![t].finished_at = Num(now)]
    /\ thread' = [thread EXCEPT ![t] = "exit"]
    /\ RunnerFrame

\* task_status: status = tasks.get(task_id); 404 if there is none or it is
\* of another user; otherwise the JSON object starts with task_id and kind
TaskStatusGet(task_id, user_id) ==
    /\ pc = "idle"
    /\ LockFree
    /\ IF task_id \notin tasks \/ status[task_id].user_id # user_id
       THEN /\ ret' = [k |-> "not_found", task_id |-> task_id, user_id |-> user_id]
            /\ UNCHANGED <<args, pc>>
       ELSE /\ args' = [fn |-> "task_status", task_id |-> task_id]
            /\ ret' = [k |-> "json", task_id |-> status[task_id].task_id,
                       kind |-> status[task_id].kind]
            /\ pc' = "read_state"
    /\ PollFrame

\* "state": status.state
ReadState ==
    /\ pc = "read_state"
    /\ ret' = ret @@ [state |-> status[args.task_id].state]
    /\ pc' = "read_percent"
    /\ UNCHANGED args
    /\ PollFrame

\* "percent": status.percent
ReadPercent ==
    /\ pc = "read_percent"
    /\ ret' = ret @@ [percent |-> status[args.task_id].percent]
    /\ pc' = "read_message"
    /\ UNCHANGED args
    /\ PollFrame

\* "message": status.message
ReadMessage ==
    /\ pc = "read_message"
    /\ ret' = ret @@ [message |-> status[args.task_id].message]
    /\ pc' = "read_error"
    /\ UNCHANGED args
    /\ PollFrame

\* "error": status.error; the object is complete and is delivered
ReadError ==
    /\ pc = "read_error"
    /\ ret' = ret @@ [error |-> status[args.task_id].error]
    /\ pc' = "respond"
    /\ UNCHANGED args
    /\ PollFrame

\* return jsonify(...): the request ends
Respond ==
    /\ pc = "respond"
    /\ args' = NoCall
    /\ ret' = None
    /\ pc' = "idle"
    /\ PollFrame

NextPoll ==
    \/ LockFree /\ \E kind \in TaskKinds, user_id \in TaskUsers : Start(kind, user_id)
    \/ LockFree /\ Cleanup
    \/ LockFree /\ \E t \in DOMAIN thread : RunnerFirstProgress(t)
    \/ LockFree /\ \E t \in DOMAIN thread, p \in ProgressValues : TargetProgress(t, p)
    \/ \E t \in DOMAIN thread : TargetReturn(t)
    \/ \E t \in DOMAIN thread : TargetRaise(t)
    \/ LockFree /\ \E t \in DOMAIN thread : RunnerLastProgress(t)
    \/ \E t \in DOMAIN thread : RunnerSetDone(t)
    \/ \E t \in DOMAIN thread : RunnerSetDoneFinishedAt(t)
    \/ \E t \in DOMAIN thread : RunnerSetError(t)
    \/ \E t \in DOMAIN thread : RunnerSetErrorText(t)
    \/ \E t \in DOMAIN thread : RunnerSetErrorFinishedAt(t)
    \/ Tick
    \/ \E task_id \in 1..MaxTasks, user_id \in PollUsers : TaskStatusGet(task_id, user_id)
    \/ ReadState
    \/ ReadPercent
    \/ ReadMessage
    \/ ReadError
    \/ Respond

SpecPoll == InitTask /\ [][NextPoll]_vars

\* the JSON object of a 200 answer of task_status, complete
Delivered == pc = "respond"

\* C19: a status delivered by task_status is a consistent snapshot: it
\* reports state error exactly when its error is non-null, and so never
\* pairs the state of before a transition of the runner with the error of
\* after it, or the reverse.
C19_ConsistentSnapshot ==
    Delivered => (ret.state = "error" <=> ~IsNone(ret.error))

\* What holds of every delivered status: a state done comes with percent 100,
\* the last message and no error (the runner writes percent and message
\* before the state, the handler reads the state before them)
C19_DoneSnapshot ==
    (Delivered /\ ret.state = "done")
        => ret.percent = 100 /\ ret.message = "finished" /\ IsNone(ret.error)

\* A delivered status says running and carries the error text
C19_RunningWithError ==
    Delivered /\ ret.state = "running" /\ ~IsNone(ret.error)

\* A delivered status says error and carries no error text
C19_ErrorWithoutText ==
    Delivered /\ ret.state = "error" /\ IsNone(ret.error)

-----------------------------------------------------------------------------
(* Termination of tasks: the runner of task_manager.py under a fair        *)
(* scheduler.  A started thread (daemon, thread.start() at line 63) is      *)
(* scheduled again and again and the lock is always released, so each step  *)
(* of the runner that is not inside the target is weakly fair.  The target  *)
(* itself may run for ever: its steps carry no fairness.                    *)

\* a step of the runner of task t outside the target
RunnerStep(t) ==
    /\ t \in DOMAIN thread
    /\ \/ RunnerFirstProgress(t)
       \/ RunnerLastProgress(t)
       \/ RunnerMarkDone(t)
       \/ RunnerMarkError(t)

SpecTaskFair ==
    SpecTask /\ \A t \in 1..MaxTasks : WF_vars(RunnerStep(t))

\* the target of task t has returned / has raised
TargetReturned(t) == t \in DOMAIN thread /\ thread[t] = "set_progress_100"
TargetRaised(t) == t \in DOMAIN thread /\ thread[t] = "except"

EndedDone(t) == t \in DOMAIN status /\ status[t].state = "done"
EndedError(t) ==
    /\ t \in DOMAIN status
    /\ status[t].state = "error"
    /\ ~IsNone(status[t].error)
    /\ ~IsNone(status[t].finished_at)

\* C20: every started task is registered before its runner thread runs, and
\* it leaves running once its target has finished: it becomes done after the
\* target returned, and error with the error text and finished_at after the
\* target raised.
C20_EveryTaskLeavesRunning ==
    /\ [][\A t \in DOMAIN thread' : t \notin DOMAIN thread => t \in tasks']_vars
    /\ \A t \in 1..MaxTasks :
          /\ TargetReturned(t) ~> EndedDone(t)
          /\ TargetRaised(t) ~> EndedError(t)

\* What holds: a task that is registered when its runner reaches the final
\* update leaves running as stated; one that cleanup removed before is the
\* only one that does not.
C20_RegisteredTaskLeavesRunning ==
    /\ [][\A t \in DOMAIN thread' : t \notin DOMAIN thread => t \in tasks']_vars
    /\ \A t \in 1..MaxTasks :
          /\ TargetReturned(t) ~> (EndedDone(t) \/ ~retrievable(t))
          /\ TargetRaised(t) ~> (EndedError(t) \/ ~retrievable(t))

\* The target of a task has returned, its runner thread has exited, and the
\* state of the task is still running
C20_ExitedStillRunning ==
    \E t \in DOMAIN status :
        /\ thread[t] = "exit"
        /\ status[t].state = "running"

-----------------------------------------------------------------------------
(* Progress of a task: set_progress and the runner, under SpecTask *)

\* C21: percent is always within [0, 100]; progress reported after the task
\* left running changes neither percent nor message; and whenever the state
\* is done, percent is 100.
C21_ProgressBounded ==
    [][\A t \in DOMAIN status' :
          /\ status'[t].percent >= 0 /\ status'[t].percent <= 100
          /\ status'[t].state = "done" => status'[t].percent = 100
          /\ (t \in DOMAIN status /\ status[t].state # "running")
                => /\ status'[t].percent = status[t].percent
                   /\ status'[t].message = status[t].message]_vars

\* A target reported progress outside [0, 100] that was clamped, one task
\* ended done and one ended error below 100, and both runners have ended,
\* so that late progress is reported to them
C21_Witness ==
    \E t, u \in DOMAIN status :
        /\ status[t].state = "done" /\ thread[t] = "exit"
        /\ status[t].percent = 100 /\ status[t].message = "finished"
        /\ status[u].state = "error" /\ thread[u] = "exit"
        /\ status[u].percent = 0 /\ status[u].message = "target"

-----------------------------------------------------------------------------
(* What a sync keeps and adds: _merge_activities as sync_activities calls   *)
(* it, under SpecSync *)

\* the start time of a does not parse or is not before the cutoff
NotOlder(a, cutoff) == ~IsNum(a.dt) \/ a.dt.v >= cutoff

InList(a, items) == \E i \in 1..Len(items) : items[i] = a
IdInList(aid, items) == \E i \in 1..Len(items) : items[i].activityId = aid

C23_MergedListWellFormed ==
    sync # None =>
        /\ \A i, j \in 1..Len(activities_file) :
              i # j => activities_file[i].activityId # activities_file[j].activityId
        /\ \A i \in 1..Len(activities_file) :
              NotOlder(activities_file[i], sync.cutoff)
        /\ \A i, j \in 1..Len(activities_file) :
              (i < j /\ IsNum(activities_file[j].dt))
                  => /\ IsNum(activities_file[i].dt)
                     /\ activities_file[i].dt.v >= activities_file[j].dt.v

\* The last run was given the older record first, then a newer activity and
\* one without start time, beside a second record of a stored id; the file
\* is newest first
C23_Witness ==
    /\ sync # None
    /\ sync.cutoff = 2
    /\ sync.vendor = <<A1, D1>>
    /\ sync.new_activities = <<A1, D1>>
    /\ activities_file = <<D1, A1, B1>>

-----------------------------------------------------------------------------
(* Where the paging of a sync stops, under SpecSync *)

\* the existing activities do not reach back to the cutoff
NeedsBackfill(existing, cutoff) ==
    \A i \in 1..Len(existing) : IsNum(existing[i].dt) => existing[i].dt.v > cutoff

\* page number k (1, 2, ...) of the vendor, its dicts only
PageOf(vendor, k) ==
    dicts_of(SubSeq(vendor, (k - 1) * PageSize + 1, Min2(k * PageSize, Len(vendor))))

EmptyPage(vendor, k) == PageOf(vendor, k) = <<>>
OldPage(vendor, k, cutoff) ==
    /\ ~EmptyPage(vendor, k)
    /\ LET last == PageOf(vendor, k)[Len(PageOf(vendor, k))]
       IN IsNum(last.dt) /\ last.dt.v < cutoff

\* the already-known activities among the first k pages
KnownSeen(existing, vendor, k) ==
    Cardinality({ i \in 1..Min2(k * PageSize, Len(vendor)) :
                    /\ vendor[i].shape = "dict"
                    /\ IsNum(vendor[i].activityId)
                    /\ IdInList(vendor[i].activityId, existing) })

OverlapStopAt(existing, vendor, k, new_activities) ==
    \/ /\ k = 1
       /\ existing # <<>>
       /\ new_activities = <<>>
       /\ 10 * KnownSeen(existing, vendor, 1) >= 8 * Len(PageOf(vendor, 1)) - 9
    \/ KnownSeen(existing, vendor, k) >= OverlapStop

C24_StoppedOnOverlap ==
    /\ sync # None
    /\ sync.vendor = <<A2, D1>>
    /\ sync.pages = 1
    /\ sync.new_activities = <<>>
    /\ activities_file = <<A1>>

-----------------------------------------------------------------------------
(* The details file: garmin_sync.py sync_activities, lines 118-155, and     *)
(* _fetch_activity_extras.  The "activities" object of the details file is  *)
(* a function from activityId to bundle.  A bundle holds the summary and,   *)
(* when get_activity_details answered, the details; the four optional       *)
(* extras are fetched and dropped the same way and are left out.            *)
(* _maybe_call turns a failed call into None, which the filter of line 174  *)
(* drops: fails is the set of ids whose calls fail during the run.          *)

Bundle(summary, has_details) == [summary |-> summary, details |-> has_details]

\* _fetch_activity_extras(aid), then bundle = {"summary": a} + extras
fetch_bundle(a, fails) == Bundle(a, a.activityId.v \notin fails)

\* the variant enriches every merged activity, also one the map already has
to_enrich_all(merged, activities_map) ==
    SelectSeq(merged, LAMBDA a : ~IsNone(a.activityId))

\* for a in merged: skip aid None and the keys the map already has
to_enrich(merged, activities_map) ==
    SelectSeq(merged, LAMBDA a : /\ ~IsNone(a.activityId)
                                 /\ a.activityId.v \notin DOMAIN activities_map)

\* for idx, a in enumerate(to_enrich): activities_map[key] = bundle
RECURSIVE enrich(_, _, _)
enrich(items, activities_map, fails) ==
    IF items = <<>> THEN activities_map
    ELSE enrich(Tail(items),
                (Head(items).activityId.v :> fetch_bundle(Head(items), fails))
                    @@ activities_map,
                fails)

IdsOf(items) == { items[i].activityId.v : i \in 1..Len(items) }

\* sync_activities, the whole handler: paging, merge, write of the
\* activities file, enrichment, write of the details file
sync_activities_details(vendor, cutoff, fails) ==
    /\ \E paged \in { sync_new_activities(activities_file, vendor, cutoff) } :
       \E merged \in { merge_activities(paged.new_activities, activities_file, cutoff) } :
         /\ activities_file' = merged
         /\ details_file' = enrich(to_enrich(merged, details_file), details_file, fails)
         /\ sync' = [vendor |-> vendor, cutoff |-> cutoff,
                     new_activities |-> paged.new_activities,
                     pages |-> paged.pages,
                     fetched |-> IdsOf(to_enrich(merged, details_file))]
    /\ UNCHANGED <<pureVars, taskVars, trainings_file, competitions_file,
                   last_request, uuid_next, served, inflight, credVars>>

DetailSummaries == { A1, A2, B1 }
DetailLists ==
    UNION { { v \in [1..n -> DetailSummaries] :
                \A i, j \in 1..n : i # j => v[i] # v[j] } : n \in 0..MaxVendor }
DetailIds == { 1, 2 }

InitDetails == InitSync

NextDetails ==
    \E vendor \in DetailLists, cutoff \in SyncCutoffs, fails \in SUBSET DetailIds :
        sync_activities_details(vendor, cutoff, fails)

SpecDetails == InitDetails /\ [][NextDetails]_vars

HasEntry(id, activities_map) == id \in DOMAIN activities_map
HoldsDetails(id, activities_map) ==
    HasEntry(id, activities_map) /\ activities_map[id].details

StoredFailureFetchedAgain ==
    [][ \A id \in IdsOf(activities_file') :
            ~HoldsDetails(id, details_file) => id \in sync'.fetched ]_vars

\* Activity 1 is in the activities file, its bundle holds no details, and
\* the last run fetched nothing
StoredFailureKept ==
    /\ sync # None
    /\ 1 \in IdsOf(activities_file)
    /\ HasEntry(1, details_file)
    /\ ~HoldsDetails(1, details_file)
    /\ sync.fetched = {}

-----------------------------------------------------------------------------
(* The credentials store with its clock: creds_store.py                     *)
(* InMemoryCredentialsStore.  creds_items is _items by token number: the    *)
(* n-th token issued is Token(n) (secrets.token_urlsafe never repeats), and *)
(* an entry is Item(creds, created_at) or, once popped, Gone.  now is       *)
(* datetime.utcnow(); args is the last call and ret what it returned.       *)
(* None is the empty token (session.pop(_SESSION_KEY, None) of a browser    *)
(* that is not logged in), Token(0) a token the store never issued.         *)

StoreTtl == 1

Item(creds, created_at) == [k |-> "item", creds |-> creds, created_at |-> created_at]
Gone == [k |-> "gone"]

\* self._items.get(token) finds an entry
held(items, token) ==
    /\ ~IsNone(token)
    /\ token.n \in DOMAIN items
    /\ items[token.n].k = "item"

\* the variant never finds an entry too old
expired_never(item, utcnow) == FALSE

\* datetime.utcnow() - created_at > self._ttl
expired(item, utcnow) == utcnow - item.created_at > StoreTtl

\* create_session: self._items[token] = (creds, datetime.utcnow())
store_create_session(items, creds, utcnow) == Append(items, Item(creds, utcnow))

\* get: the credentials, or None for no token, no entry, or an entry too
\* old, which is popped
store_get(items, token, utcnow) ==
    IF IsNone(token) THEN [items |-> items, ret |-> None]
    ELSE IF ~held(items, token) THEN [items |-> items, ret |-> None]
    ELSE IF expired(items[token.n], utcnow)
         THEN [items |-> [items EXCEPT ![token.n] = Gone], ret |-> None]
         ELSE [items |-> items, ret |-> items[token.n].creds]

\* delete: self._items.pop(token, None)
store_delete(items, token) ==
    IF IsNone(token) THEN items
    ELSE IF ~held(items, token) THEN items
    ELSE [items EXCEPT ![token.n] = Gone]

\* cleanup: pop every entry with now - t0 > ttl
store_cleanup(items, utcnow) ==
    [n \in DOMAIN items |->
        IF items[n].k = "item" /\ expired(items[n], utcnow) THEN Gone ELSE items[n]]

StoreFrame ==
    UNCHANGED <<pc, taskVars, trainings_file, competitions_file, last_request,
                uuid_next, served, inflight, activities_file, details_file, sync,
                session, garmin_cache, db_users>>

StoreCreateSession(creds) ==
    /\ Len(creds_items) < MaxSessions
    /\ creds_items' = store_create_session(creds_items, creds, now)
    /\ args' = [fn |-> "create_session", creds |-> creds]
    /\ ret' = Token(Len(creds_items) + 1)
    /\ StoreFrame

StoreGet(token) ==
    /\ \E out \in { store_get(creds_items, token, now) } :
         /\ creds_items' = out.items
         /\ ret' = out.ret
    /\ args' = [fn |-> "get", token |-> token]
    /\ StoreFrame

\* delete, as logout calls it with the token of the session cookie
StoreDelete(token) ==
    /\ creds_items' = store_delete(creds_items, token)
    /\ args' = [fn |-> "delete", token |-> token]
    /\ ret' = None
    /\ StoreFrame

StoreCleanup ==
    /\ creds_items' = store_cleanup(creds_items, now)
    /\ args' = [fn |-> "cleanup"]
    /\ ret' = None
    /\ StoreFrame

StoreTokens == { None, Token(0) } \cup { Token(n) : n \in DOMAIN creds_items }

InitStore ==
    /\ PureIdle
    /\ TaskIdle
    /\ PlanIdle

NextStore ==
    \/ \E u \in Accounts : StoreCreateSession(session_creds(u))
    \/ \E token \in StoreTokens : StoreGet(token)
    \/ \E token \in StoreTokens : StoreDelete(token)
    \/ StoreCleanup
    \/ Tick

SpecStore == InitStore /\ [][NextStore]_vars

\* the token was issued, its entry has not been removed, and the entry has
\* not outlived the ttl at time t
ValidToken(token, t) ==
    /\ ~IsNone(token)
    /\ token.n \in DOMAIN creds_items
    /\ creds_items[token.n] # Gone
    /\ t - creds_items[token.n].created_at <= StoreTtl

OthersKept(token) ==
    \A n \in DOMAIN creds_items :
        (IsNone(token) \/ n # token.n) => creds_items'[n] = creds_items[n]

\* C26: get returns credentials only for a token issued by create_session
\* that has neither been deleted nor outlived the ttl, and then the ones
\* stored; an entry removed by delete, by get or by cleanup never comes back
\* and time never goes back, so every later get of that token returns None;
\* cleanup removes exactly the expired entries; get and delete with an empty
\* or unknown token change nothing.
C26_StoreGetDeleteCleanup ==
    [][ /\ now' >= now
        /\ \A n \in DOMAIN creds_items :
              /\ n \in DOMAIN creds_items'
              /\ creds_items[n] = Gone => creds_items'[n] = Gone
              /\ creds_items'[n] # Gone => creds_items'[n] = creds_items[n]
        /\ \A n \in DOMAIN creds_items' :
              n \notin DOMAIN creds_items
                  => /\ args'.fn = "create_session"
                     /\ ret' = Token(n)
                     /\ creds_items'[n] = Item(args'.creds, now)
        /\ (now' = now /\ args'.fn = "get") =>
              /\ ret' = IF ValidToken(args'.token, now)
                        THEN creds_items[args'.token.n].creds
                        ELSE None
              /\ OthersKept(args'.token)
              /\ (IsNone(args'.token) \/ args'.token.n \notin DOMAIN creds_items)
                    => creds_items' = creds_items
        /\ (now' = now /\ args'.fn = "delete") =>
              /\ OthersKept(args'.token)
              /\ IF IsNone(args'.token) \/ args'.token.n \notin DOMAIN creds_items
                 THEN creds_items' = creds_items
                 ELSE creds_items'[args'.token.n] = Gone
        /\ (now' = now /\ args'.fn = "cleanup") =>
              \A n \in DOMAIN creds_items :
                  creds_items'[n] = Gone
                      <=> \/ creds_items[n] = Gone
                          \/ now - creds_items[n].created_at > StoreTtl
      ]_vars

\* Two tokens were issued; the first outlived the ttl and the last call, a
\* get of it, returned None and removed it; the second is still valid
C26_Witness ==
    /\ Len(creds_items) = 2
    /\ args = [fn |-> "get", token |-> Token(1)]
    /\ ret = None
    /\ creds_items[1] = Gone
    /\ creds_items[2] # Gone
    /\ now - creds_items[2].created_at <= StoreTtl
    /\ now > StoreTtl

====
